---- MODULE Spec2Model ----
(***************************************************************************)
(* A model of the nanobot agent runtime: the tool registry, the message    *)
(* bus, the agent loop and the subagent manager.                           *)
(*                                                                         *)
(* Python strings that the code splits, joins or measures are sequences    *)
(* of one-character strings; strings that the code only formats are        *)
(* sequences of fragments.  A Python value is a record [type, v].          *)
(* Coroutines are modelled at the granularity of asyncio: one action is    *)
(* the code a task runs between two suspension points.                     *)
(***************************************************************************)
EXTENDS Integers, Sequences, FiniteSets, TLC

VARIABLES
    tools,          \* ToolRegistry._tools of the agent loop: name -> Tool
    lastExec,       \* observation of the latest ToolRegistry.execute call
    lastCheck,      \* observation of the latest Tool.validate_params call
    lastReg,        \* observation of the latest register or unregister call
    inbound,        \* MessageBus.inbound
    outbound,       \* MessageBus.outbound
    subscribers,    \* MessageBus._outbound_subscribers: channel -> callbacks
    bus_running,    \* MessageBus._running
    dpc,            \* position of dispatch_outbound
    dmsg,           \* the outbound message the dispatcher holds
    didx,           \* index of the next callback of the for loop
    delivered,      \* observation: the callback invocations, in order
    taken,          \* observation: the outbound messages taken, in order
    loop_running,   \* AgentLoop._running
    lpc,            \* position of AgentLoop.run
    cur,            \* the inbound message being processed
    messages,       \* the message list of the turn being processed
    iteration,      \* the iteration counter of the turn
    pending,        \* the tool calls of the latest response not yet executed
    sessions,       \* the session store: session key -> log of turns
    message_ctx,    \* MessageTool._default_channel, _default_chat_id
    spawn_ctx,      \* SpawnTool._origin_channel, _origin_chat_id
    turn,           \* observation of the turn being processed
    last,           \* observation of the latest turn that ended
    published,      \* number of inbound messages the channel adapters published
    tasks,          \* the background tasks spawn created, in creation order
    running_tasks,  \* SubagentManager._running_tasks: task id -> task
    direct,         \* the call of AgentLoop.process_direct in progress
    mb_running,     \* MultiBotManager._running
    mpc,            \* position of MultiBotManager.run
    mmsg,           \* the inbound message being broadcast
    group_history,  \* MultiBotManager._group_history
    topic_reply_counts, \* per bot: BotInstance._topic_reply_counts
    biter,          \* per bot: the iteration counter of process_message
    responses,      \* per bot: what process_message returned to gather
    midx,           \* index of the next bot of the zip loop
    contexts,       \* observation, per bot: the group history it was given
    chat_log,       \* observation: accepted user messages and published replies
    sent,           \* observation: the bots whose reply this broadcast published
    asked,          \* observation, per bot: calls of process_message, this broadcast
    returned,       \* observation, per bot: the topic keys of the texts it returned
    stops,          \* observation: stop() of the loop, of the bus has been called
    bw              \* a BotWorker, its coroutines, and the group chat it is in

regVars == <<tools, lastExec, lastCheck, lastReg>>
queueVars == <<inbound, outbound>>
busVars == <<subscribers, bus_running, dpc, dmsg, didx, delivered, taken>>
loopVars == <<loop_running, lpc, cur, messages, iteration, pending, sessions,
              message_ctx, spawn_ctx, turn, last, published>>
subVars == <<tasks, running_tasks>>
agentVars == <<loopVars, subVars>>
mbVars == <<mb_running, mpc, mmsg, group_history, topic_reply_counts, biter,
            responses, midx, contexts, chat_log, sent, asked, returned>>
coreVars == <<regVars, queueVars, busVars, agentVars, direct, mbVars, stops>>
vars == <<coreVars, bw>>

Range(s) == {s[i] : i \in 1..Len(s)}

----------------------------------------------------------------------------
(* Python values *)

PyStr(frags) == [type |-> "str", v |-> frags]
PyInt(n) == [type |-> "int", v |-> n]
PyBool(b) == [type |-> "bool", v |-> b]
\* a dict keeps its insertion order: a sequence of <<key, value>> pairs
PyDict(pairs) == [type |-> "dict", v |-> pairs]
PyList(items) == [type |-> "list", v |-> items]
None == [type |-> "none", v |-> <<>>]

IsStr(x) == x.type = "str"

Keys(d) == {d.v[i][1] : i \in 1..Len(d.v)}
Get(d, k) == d.v[CHOOSE i \in 1..Len(d.v) : d.v[i][1] = k][2]

\* the number a Python int or bool compares as
NumOf(x) == IF x.type = "bool" THEN (IF x.v THEN 1 ELSE 0) ELSE x.v

\* Python ==, as `in` uses it on the members of an enum list
PyEq(a, b) ==
    \/ a.type = b.type /\ a.v = b.v
    \/ /\ a.type \in {"int", "bool"}
       /\ b.type \in {"int", "bool"}
       /\ NumOf(a) = NumOf(b)

RECURSIVE Repr(_)
RECURSIVE ReprItems(_, _)
\* repr() of a value, as an f-string formats a list
Repr(x) ==
    CASE x.type = "str" -> <<"'">> \o x.v \o <<"'">>
      [] x.type = "int" -> <<ToString(x.v)>>
      [] x.type = "bool" -> IF x.v THEN <<"True">> ELSE <<"False">>
      [] x.type = "list" -> <<"[">> \o ReprItems(x.v, 1) \o <<"]">>
      [] OTHER -> <<"None">>
ReprItems(items, i) ==
    IF i > Len(items) THEN <<>>
    ELSE Repr(items[i]) \o (IF i < Len(items) THEN <<", ">> ELSE <<>>)
         \o ReprItems(items, i + 1)

----------------------------------------------------------------------------
(* Tool: the capability contract and its default parameter validator *)

\* Tool._TYPE_MAP with isinstance: a bool is an int, an int is a number
TYPE_MAP ==
    [string |-> {"str"}, integer |-> {"int", "bool"},
     number |-> {"int", "float", "bool"}, boolean |-> {"bool"},
     array |-> {"list"}, object |-> {"dict"}]

SchemaType(schema) == IF "type" \in DOMAIN schema THEN schema.type ELSE "None"

\* path + '.' + k if path else k
SubPath(path, k) == IF path # <<>> THEN path \o <<".", k>> ELSE <<k>>
\* f"{path}[{i}]" if path else f"[{i}]", i counted from 0
ItemPath(path, i) == path \o <<"[", ToString(i - 1), "]">>

\* a check of required keys that looks at the root only
MissingRequiredAtRoot(val, req, path, i) ==
    IF path # <<>> \/ i > Len(req) THEN <<>>
    ELSE LET miss == SelectSeq(SubSeq(req, i, Len(req)),
                               LAMBDA k : k \notin Keys(val))
         IN  [j \in 1..Len(miss) |-> <<"missing required ", miss[j]>>]

RECURSIVE _validate(_, _, _)
RECURSIVE ValidateProps(_, _, _, _)
RECURSIVE ValidateItems(_, _, _, _)
RECURSIVE MissingRequired(_, _, _, _)

\* for k in schema.get("required", []): if k not in val: errors.append(...)
MissingRequired(val, req, path, i) ==
    IF i > Len(req) THEN <<>>
    ELSE (IF req[i] \notin Keys(val)
          THEN <<<<"missing required ">> \o SubPath(path, req[i])>>
          ELSE <<>>)
         \o MissingRequired(val, req, path, i + 1)

\* for k, v in val.items(): if k in props: errors.extend(self._validate(...))
ValidateProps(val, props, path, i) ==
    IF i > Len(val.v) THEN <<>>
    ELSE (IF val.v[i][1] \in DOMAIN props
          THEN _validate(val.v[i][2], props[val.v[i][1]], SubPath(path, val.v[i][1]))
          ELSE <<>>)
         \o ValidateProps(val, props, path, i + 1)

\* for i, item in enumerate(val): errors.extend(self._validate(item, ...))
ValidateItems(val, items, path, i) ==
    IF i > Len(val.v) THEN <<>>
    ELSE _validate(val.v[i], items, ItemPath(path, i))
         \o ValidateItems(val, items, path, i + 1)

\* Tool._validate: the list of error strings for val against schema
_validate(val, schema, path) ==
    LET t == SchemaType(schema)
        label == IF path # <<>> THEN path ELSE <<"parameter">>
    IN  IF t \in DOMAIN TYPE_MAP /\ val.type \notin TYPE_MAP[t]
        THEN <<label \o <<" should be ", t>>>>
        ELSE
          (IF "enum" \in DOMAIN schema
              /\ ~\E j \in 1..Len(schema.enum) : PyEq(val, schema.enum[j])
           THEN <<label \o <<" must be one of ">> \o Repr(PyList(schema.enum))>>
           ELSE <<>>)
          \o
          (IF t \in {"integer", "number"}
           THEN (IF "minimum" \in DOMAIN schema /\ NumOf(val) < schema.minimum
                 THEN <<label \o <<" must be >= ", ToString(schema.minimum)>>>>
                 ELSE <<>>)
                \o
                (IF "maximum" \in DOMAIN schema /\ NumOf(val) > schema.maximum
                 THEN <<label \o <<" must be <= ", ToString(schema.maximum)>>>>
                 ELSE <<>>)
           ELSE <<>>)
          \o
          (IF t = "string"
           THEN (IF "minLength" \in DOMAIN schema /\ Len(val.v) < schema.minLength
                 THEN <<label \o <<" must be at least ",
                                   ToString(schema.minLength), " chars">>>>
                 ELSE <<>>)
                \o
                (IF "maxLength" \in DOMAIN schema /\ Len(val.v) > schema.maxLength
                 THEN <<label \o <<" must be at most ",
                                   ToString(schema.maxLength), " chars">>>>
                 ELSE <<>>)
           ELSE <<>>)
          \o
          (IF t = "object"
           THEN MissingRequired(val,
                    IF "required" \in DOMAIN schema THEN schema.required ELSE <<>>,
                    path, 1)
                \o ValidateProps(val,
                    IF "properties" \in DOMAIN schema THEN schema.properties
                    ELSE [k \in {} |-> None],
                    path, 1)
           ELSE <<>>)
          \o
          (IF t = "array" /\ "items" \in DOMAIN schema
           THEN ValidateItems(val, schema.items, path, 1)
           ELSE <<>>)

\* Tool.validate_params: the error list, or the ValueError it raises when the
\* root schema is not an object
validate_params(tool, params) ==
    LET schema == tool.parameters
    IN  IF SchemaType(schema) \notin {"None", "object"}
        THEN [raised |-> TRUE,
              exc |-> <<"Schema must be object type, got '", schema.type, "'">>,
              errors |-> <<>>]
        ELSE [raised |-> FALSE, exc |-> <<>>,
              errors |-> _validate(PyDict(params),
                                   [k \in DOMAIN schema \cup {"type"} |->
                                       IF k = "type" THEN "object" ELSE schema[k]],
                                   <<>>)]

----------------------------------------------------------------------------
(* The capabilities of the model *)

ListDirTool ==
    [name |-> "list_dir",
     description |-> "list the contents of a directory",
     parameters |->
        [type |-> "object",
         properties |-> [path |-> [type |-> "string", description |-> "the directory"]],
         required |-> <<"path">>]]

MessageTool ==
    [name |-> "message",
     description |-> "send a message to the user",
     parameters |->
        [type |-> "object",
         properties |->
            [content |-> [type |-> "string", description |-> "the text"],
             channel |-> [type |-> "string", description |-> "target channel"],
             chat_id |-> [type |-> "string", description |-> "target chat"]],
         required |-> <<"content">>]]

SpawnTool ==
    [name |-> "spawn",
     description |-> "spawn a subagent for a background task",
     parameters |->
        [type |-> "object",
         properties |->
            [task |-> [type |-> "string", description |-> "the task"],
             label |-> [type |-> "string", description |-> "a short label"]],
         required |-> <<"task">>]]

\* Two user-written capabilities of one name: any subclass of Tool may be
\* registered, and its execute may return or raise anything.
ProbeTool ==
    [name |-> "probe",
     description |-> "a user capability",
     parameters |-> [type |-> "object",
                     properties |-> [n |-> [type |-> "integer", minimum |-> 1]],
                     required |-> <<>>]]

ProbeTool2 ==
    [name |-> "probe",
     description |-> "a user capability, second version",
     parameters |-> [type |-> "object",
                     properties |-> [n |-> [type |-> "integer", minimum |-> 1]],
                     required |-> <<"n">>]]

\* A user-written capability with nested parameters: an object and a list of
\* objects, each with required keys of its own
NestedTool ==
    [name |-> "nested",
     description |-> "a user capability with nested parameters",
     parameters |->
        [type |-> "object",
         properties |->
            [name |-> [type |-> "string", minLength |-> 1, maxLength |-> 3],
             opts |-> [type |-> "object",
                       properties |->
                          [depth |-> [type |-> "integer",
                                      minimum |-> 0, maximum |-> 2],
                           mode |-> [type |-> "string",
                                     enum |-> <<PyStr(<<"a">>), PyStr(<<"b">>)>>]],
                       required |-> <<"depth">>],
             tags |-> [type |-> "array",
                       items |-> [type |-> "object",
                                  properties |-> [k |-> [type |-> "string"]],
                                  required |-> <<"k">>]]],
         required |-> <<"name">>]]

\* A user-written capability whose schema is not an object at the root
ListRootTool ==
    [name |-> "bare",
     description |-> "a user capability that takes a list",
     parameters |-> [type |-> "array", items |-> [type |-> "string"]]]

----------------------------------------------------------------------------
(* ToolRegistry *)

Has(reg, name) == \E i \in 1..Len(reg) : reg[i].name = name
ToolsGet(reg, name) == reg[CHOOSE i \in 1..Len(reg) : reg[i].name = name]

\* a registry in which the first registration of a name wins
register_keep_first(reg, tool) ==
    IF Has(reg, tool.name) THEN reg ELSE Append(reg, tool)

\* self._tools[tool.name] = tool: a dict keeps the position of a key it has
register(reg, tool) ==
    IF Has(reg, tool.name)
    THEN [i \in 1..Len(reg) |-> IF reg[i].name = tool.name THEN tool ELSE reg[i]]
    ELSE Append(reg, tool)

\* self._tools.pop(name, None)
unregister(reg, name) == SelectSeq(reg, LAMBDA t : t.name # name)

\* a wire format that keeps the root of the parameter schema only
to_schema_root_only(tool) ==
    [type |-> "function",
     function |-> [name |-> tool.name, description |-> tool.description,
                   parameters |-> [type |-> tool.parameters.type]]]

\* Tool.to_schema: the function-call format of the model API
to_schema(tool) ==
    [type |-> "function",
     function |-> [name |-> tool.name, description |-> tool.description,
                   parameters |-> tool.parameters]]

\* [tool.to_schema() for tool in self._tools.values()]
get_definitions(reg) == [i \in 1..Len(reg) |-> to_schema(reg[i])]

\* a join that keeps the first error only
JoinErrorsFirstOnly(errors, i) == errors[1]

RECURSIVE JoinErrors(_, _)
\* "; ".join(errors)
JoinErrors(errors, i) ==
    IF i > Len(errors) THEN <<>>
    ELSE errors[i] \o (IF i < Len(errors) THEN <<"; ">> ELSE <<>>)
         \o JoinErrors(errors, i + 1)

\* a not-found message that leaves the name out
NotFoundMsgAnonymous(name) == PyStr(<<"Error: Tool not found">>)

NotFoundMsg(name) == PyStr(<<"Error: Tool '", name, "' not found">>)
InvalidParamsMsg(name, errors) ==
    PyStr(<<"Error: Invalid parameters for tool '", name, "': ">>
          \o JoinErrors(errors, 1))
\* an error message that drops the text of the exception
ExecErrorMsgBlank(name, exc) == PyStr(<<"Error executing ", name>>)

ExecErrorMsg(name, exc) == PyStr(<<"Error executing ", name, ": ">> \o exc)

\* What the capability's own execute does once it is called: it returns a
\* value of some native type or raises.
Return(x) == [kind |-> "return", value |-> x]
Raise(exc) == [kind |-> "raise", value |-> PyStr(exc)]

\* the value a call of the capability hands back to ToolRegistry.execute
ToolReturn(outcome) == outcome.value

\* `except Exception as e` around validation and the call: the exception
\* becomes a string and does not leave ToolRegistry.execute
ExecuteExcept(name, exc) ==
    [result |-> ExecErrorMsg(name, exc), raises |-> FALSE]

\* ToolRegistry.execute(name, params), the capability behaving as `outcome`
\* if it is called.  invoked: whether the capability's execute was called;
\* raises: whether an exception leaves ToolRegistry.execute.
execute(reg, name, params, outcome) ==
    IF ~Has(reg, name)
    THEN [result |-> NotFoundMsg(name), invoked |-> FALSE, raises |-> FALSE]
    ELSE LET tool == ToolsGet(reg, name)
             checked == validate_params(tool, params)
         IN  IF checked.raised
             THEN [invoked |-> FALSE] @@ ExecuteExcept(name, checked.exc)
             ELSE IF checked.errors # <<>>
             THEN [result |-> InvalidParamsMsg(name, checked.errors),
                   invoked |-> FALSE, raises |-> FALSE]
             ELSE IF outcome.kind = "raise"
             THEN [invoked |-> TRUE] @@ ExecuteExcept(name, outcome.value.v)
             ELSE [result |-> ToolReturn(outcome), invoked |-> TRUE,
                   raises |-> FALSE]

----------------------------------------------------------------------------
(* The operations of the registry as actions *)

NoCheck == [raised |-> FALSE, exc |-> <<>>, errors |-> <<>>]

NoExec ==
    [called |-> FALSE, name |-> "", registered |-> FALSE,
     outcome |-> Return(None), checked |-> NoCheck, result |-> None,
     invoked |-> FALSE, raises |-> FALSE]

NoTool == [name |-> "", description |-> "", parameters |-> [type |-> ""]]
NoReg == [op |-> "", name |-> "", tool |-> NoTool, prev |-> NoTool]

Register(tool) ==
    /\ tools' = register(tools, tool)
    /\ lastReg' = [op |-> "register", name |-> tool.name, tool |-> tool,
                   prev |-> IF Has(tools, tool.name)
                            THEN ToolsGet(tools, tool.name) ELSE NoTool]
    /\ UNCHANGED <<bw, stops, mbVars, direct, lastExec, lastCheck, queueVars, busVars, agentVars>>

Unregister(name) ==
    /\ tools' = unregister(tools, name)
    /\ lastReg' = [op |-> "unregister", name |-> name, tool |-> NoTool,
                   prev |-> IF Has(tools, name)
                            THEN ToolsGet(tools, name) ELSE NoTool]
    /\ UNCHANGED <<bw, stops, mbVars, direct, lastExec, lastCheck, queueVars, busVars, agentVars>>

Execute(name, params, outcome) ==
    /\ lastExec' =
          [called |-> TRUE, name |-> name, registered |-> Has(tools, name),
           outcome |-> outcome,
           checked |-> IF Has(tools, name)
                       THEN validate_params(ToolsGet(tools, name), params)
                       ELSE NoCheck]
          @@ execute(tools, name, params, outcome)
    /\ UNCHANGED <<bw, stops, mbVars, direct, tools, lastCheck, lastReg, queueVars, busVars,
                   agentVars>>

NoValidate ==
    [done |-> FALSE, schema |-> <<>>, params |-> <<>>] @@ NoCheck

\* tool.validate_params(params) called on its own
ValidateParams(tool, params) ==
    /\ lastCheck' =
          [done |-> TRUE, schema |-> tool.parameters, params |-> params]
          @@ validate_params(tool, params)
    /\ UNCHANGED <<bw, stops, mbVars, direct, tools, lastExec, lastReg, queueVars, busVars,
                   agentVars>>

----------------------------------------------------------------------------
(* MessageBus *)

\* channel names and chat ids, one character per element
TG == <<"t", "g">>
CLI == <<"c", "l", "i">>
SYSTEM == <<"s", "y", "s", "t", "e", "m">>
Chat42 == <<"4", "2">>
Direct == <<"d", "i", "r", "e", "c", "t">>

OutboundMessage(channel, chat_id, content) ==
    [channel |-> channel, chat_id |-> chat_id, content |-> content]

NoOutbound == OutboundMessage(<<>>, <<>>, None)

\* a lookup that takes the subscribers of whichever channel comes first
SubscribersOfAnyChannel(channel) ==
    IF DOMAIN subscribers = {} THEN <<>>
    ELSE subscribers[CHOOSE c \in DOMAIN subscribers : TRUE]

\* self._outbound_subscribers.get(msg.channel, [])
SubscribersOf(channel) ==
    IF channel \in DOMAIN subscribers THEN subscribers[channel] ELSE <<>>

\* MessageBus.__init__
BusInit ==
    /\ subscribers = [c \in {} |-> <<>>]
    /\ bus_running = FALSE
    /\ dpc = "created"
    /\ dmsg = NoOutbound
    /\ didx = 0
    /\ delivered = <<>>
    /\ taken = <<>>

\* a publish that puts the message in front of the waiting ones
publish_inbound_first(q, m) == <<m>> \o q

\* an outbound publish that overtakes the messages that wait
publish_outbound_first(q, m) == <<m>> \o q

\* the queues put: asyncio.Queue() is unbounded, put never waits or fails
publish_outbound(q, m) == Append(q, m)
publish_inbound(q, m) == Append(q, m)

\* subscribe_outbound(channel, callback)
Subscribe(channel, callback) ==
    /\ subscribers' =
          [c \in DOMAIN subscribers \cup {channel} |->
              IF c = channel THEN Append(SubscribersOf(channel), callback)
              ELSE subscribers[c]]
    /\ UNCHANGED <<bw, stops, mbVars, direct, regVars, queueVars, agentVars, bus_running, dpc, dmsg, didx,
                   delivered, taken>>

\* a loop that never looks at its flag
AfterPassKeepsWaiting(running) == "wait"

\* the test of `while self._running` that ends every pass of the loop
AfterPass(running) == IF running THEN "wait" ELSE "exit"

\* dispatch_outbound up to its first wait: self._running = True, the loop
\* test, and into wait_for
DispatchStart ==
    /\ dpc = "created"
    /\ bus_running' = TRUE
    /\ dpc' = "wait"
    /\ UNCHANGED <<bw, stops, mbVars, direct, regVars, queueVars, agentVars, subscribers, dmsg, didx,
                   delivered, taken>>

\* wait_for(self.outbound.get(), 1.0) times out on an empty queue: continue
DispatchTimeout ==
    /\ dpc = "wait"
    /\ outbound = <<>>
    /\ dpc' = AfterPass(bus_running)
    /\ UNCHANGED <<bw, stops, mbVars, direct, regVars, queueVars, agentVars, subscribers, bus_running,
                   dmsg, didx, delivered, taken>>

\* wait_for returns a message; the subscribers are looked up and the for
\* loop starts (with no subscriber the pass ends here)
DispatchTake ==
    /\ dpc = "wait"
    /\ outbound # <<>>
    /\ outbound' = Tail(outbound)
    /\ taken' = Append(taken, Head(outbound))
    /\ IF SubscribersOf(Head(outbound).channel) = <<>>
       THEN /\ dpc' = AfterPass(bus_running)
            /\ dmsg' = NoOutbound
            /\ didx' = 0
       ELSE /\ dpc' = "callbacks"
            /\ dmsg' = Head(outbound)
            /\ didx' = 1
    /\ UNCHANGED <<bw, stops, mbVars, direct, regVars, inbound, agentVars, subscribers, bus_running,
                   delivered>>

\* a for loop that a raising callback leaves
AfterCallbackEscapes(raised, idx, n, running) ==
    IF idx < n /\ ~raised
    THEN [pc |-> "callbacks", idx |-> idx + 1]
    ELSE [pc |-> IF running THEN "wait" ELSE "exit", idx |-> 0]

\* a dispatcher that an exception of a callback ends
AfterCallbackEnds(raised, idx, n, running) ==
    IF raised THEN [pc |-> "exit", idx |-> 0]
    ELSE IF idx < n THEN [pc |-> "callbacks", idx |-> idx + 1]
    ELSE [pc |-> IF running THEN "wait" ELSE "exit", idx |-> 0]

\* what follows one callback of the for loop, whether it returned or its
\* exception was caught by `except Exception` and logged
AfterCallback(raised, idx, n, running) ==
    IF idx < n
    THEN [pc |-> "callbacks", idx |-> idx + 1]
    ELSE [pc |-> AfterPass(running), idx |-> 0]

\* await callback(msg) for the next subscriber: it returns or raises
DispatchCallback(raised) ==
    /\ dpc = "callbacks"
    /\ LET subs == SubscribersOf(dmsg.channel)
           next == AfterCallback(raised, didx, Len(subs), bus_running)
       IN  /\ delivered' = Append(delivered,
                  [n |-> Len(taken), idx |-> didx, of |-> Len(subs),
                   callback |-> subs[didx], raised |-> raised])
           /\ dpc' = next.pc
           /\ didx' = next.idx
           /\ dmsg' = IF next.pc = "callbacks" THEN dmsg ELSE NoOutbound
    /\ UNCHANGED <<bw, stops, mbVars, direct, regVars, queueVars, agentVars, subscribers, bus_running,
                   taken>>

\* MessageBus.stop()
BusStop ==
    /\ bus_running' = FALSE
    /\ stops' = [stops EXCEPT !.bus = TRUE]
    /\ UNCHANGED <<bw, mbVars, direct, regVars, queueVars, agentVars, subscribers, dpc, dmsg, didx,
                   delivered, taken>>

\* a producer puts a message on the outbound queue
PublishOutbound(m) ==
    /\ outbound' = publish_outbound(outbound, m)
    /\ UNCHANGED <<bw, stops, mbVars, direct, regVars, inbound, busVars, agentVars>>

----------------------------------------------------------------------------
(* Messages, sessions and the context builder *)

InboundMessage(channel, sender_id, chat_id, content) ==
    [channel |-> channel, sender_id |-> sender_id, chat_id |-> chat_id,
     content |-> content]

NoInbound == InboundMessage(<<>>, "", <<>>, None)

\* f"{channel}:{chat_id}"
JoinKey(channel, chat_id) == channel \o <<":">> \o chat_id

\* InboundMessage.session_key
session_key(msg) == JoinKey(msg.channel, msg.chat_id)

\* a split at the last ':' instead of the first
ParseOriginLastColon(chat_id) ==
    IF ":" \in Range(chat_id)
    THEN LET i == CHOOSE i \in 1..Len(chat_id) :
                     /\ chat_id[i] = ":"
                     /\ \A j \in (i + 1)..Len(chat_id) : chat_id[j] # ":"
         IN  [channel |-> SubSeq(chat_id, 1, i - 1),
              chat_id |-> SubSeq(chat_id, i + 1, Len(chat_id))]
    ELSE [channel |-> <<"c", "l", "i">>, chat_id |-> chat_id]

\* a system route without the fallback: a chat_id with no ':' stays on the
\* channel it came in on
ParseOriginNoDefault(chat_id) ==
    IF ":" \in Range(chat_id)
    THEN LET i == CHOOSE i \in 1..Len(chat_id) :
                     /\ chat_id[i] = ":"
                     /\ \A j \in 1..(i - 1) : chat_id[j] # ":"
         IN  [channel |-> SubSeq(chat_id, 1, i - 1),
              chat_id |-> SubSeq(chat_id, i + 1, Len(chat_id))]
    ELSE [channel |-> <<"s", "y", "s", "t", "e", "m">>, chat_id |-> chat_id]

\* chat_id.split(":", 1) of the system route, with its fallback to "cli"
ParseOrigin(chat_id) ==
    IF ":" \in Range(chat_id)
    THEN LET i == CHOOSE i \in 1..Len(chat_id) :
                     /\ chat_id[i] = ":"
                     /\ \A j \in 1..(i - 1) : chat_id[j] # ":"
         IN  [channel |-> SubSeq(chat_id, 1, i - 1),
              chat_id |-> SubSeq(chat_id, i + 1, Len(chat_id))]
    ELSE [channel |-> CLI, chat_id |-> chat_id]

IsSystem(msg) == msg.channel = SYSTEM

\* the (channel, chat_id) a turn for msg works with and answers to
Resolved(msg) ==
    IF IsSystem(msg) THEN ParseOrigin(msg.chat_id)
    ELSE [channel |-> msg.channel, chat_id |-> msg.chat_id]

\* the key of the session a turn for msg loads
ResolvedKey(msg) ==
    IF IsSystem(msg)
    THEN JoinKey(ParseOrigin(msg.chat_id).channel, ParseOrigin(msg.chat_id).chat_id)
    ELSE session_key(msg)

\* SessionManager.get_or_create, Session.get_history, Session.add_message
get_or_create(store, key) ==
    IF key \in DOMAIN store THEN store
    ELSE [k \in DOMAIN store \cup {key} |-> IF k = key THEN <<>> ELSE store[k]]
get_history(store, key) == IF key \in DOMAIN store THEN store[key] ELSE <<>>
add_message(store, key, role, content) ==
    [store EXCEPT ![key] = Append(@, [role |-> role, content |-> content])]

SystemPrompt == PyStr(<<"system prompt">>)

\* ContextBuilder.build_messages without media
build_messages(history, current_message) ==
    <<[role |-> "system", content |-> SystemPrompt]>> \o history
    \o <<[role |-> "user", content |-> current_message]>>

\* json.dumps(x): a string that encodes x
JsonDumps(x) == [type |-> "str", v |-> <<"json">>, of |-> x]

\* an assistant turn that records the first call only
ToolCallDictsFirstOnly(tool_calls) ==
    [i \in 1..1 |->
        [id |-> tool_calls[i].id, type |-> "function",
         function |-> [name |-> tool_calls[i].name,
                       arguments |-> [type |-> "str", v |-> <<"json">>,
                                      of |-> tool_calls[i].arguments]]]]

\* the tool_call_dicts comprehension of the loops
ToolCallDicts(tool_calls) ==
    [i \in 1..Len(tool_calls) |->
        [id |-> tool_calls[i].id, type |-> "function",
         function |-> [name |-> tool_calls[i].name,
                       arguments |-> JsonDumps(tool_calls[i].arguments)]]]

\* content or ""
OrEmpty(content) ==
    IF content.type = "none" \/ content.v = <<>> THEN PyStr(<<>>) ELSE content

\* ContextBuilder.add_assistant_message
add_assistant_message(msgs, content, tool_call_dicts) ==
    Append(msgs,
        IF tool_call_dicts # <<>>
        THEN [role |-> "assistant", content |-> OrEmpty(content),
              tool_calls |-> tool_call_dicts]
        ELSE [role |-> "assistant", content |-> OrEmpty(content)])

\* a tool call whose result is never appended
add_tool_result_dropped(msgs, tool_call_id, tool_name, result) == msgs

\* ContextBuilder.add_tool_result
add_tool_result(msgs, tool_call_id, tool_name, result) ==
    Append(msgs,
        [role |-> "tool", tool_call_id |-> tool_call_id, name |-> tool_name,
         content |-> result])

\* LLMResponse.has_tool_calls
has_tool_calls(response) == Len(response.tool_calls) > 0

----------------------------------------------------------------------------
(* AgentLoop *)

\* the iteration budget of a turn (AgentLoop.max_iterations, 20 by default)
max_iterations == 2

ReadFileTool ==
    [name |-> "read_file", description |-> "read a file",
     parameters |-> [type |-> "object",
                     properties |-> [path |-> [type |-> "string"]],
                     required |-> <<"path">>]]
WriteFileTool ==
    [name |-> "write_file", description |-> "write a file",
     parameters |-> [type |-> "object",
                     properties |-> [path |-> [type |-> "string"],
                                     content |-> [type |-> "string"]],
                     required |-> <<"path", "content">>]]
EditFileTool ==
    [name |-> "edit_file", description |-> "edit a file",
     parameters |-> [type |-> "object",
                     properties |-> [path |-> [type |-> "string"],
                                     old_text |-> [type |-> "string"],
                                     new_text |-> [type |-> "string"]],
                     required |-> <<"path", "old_text", "new_text">>]]
ExecTool ==
    [name |-> "exec", description |-> "run a shell command",
     parameters |-> [type |-> "object",
                     properties |-> [command |-> [type |-> "string"],
                                     working_dir |-> [type |-> "string"]],
                     required |-> <<"command">>]]
WebSearchTool ==
    [name |-> "web_search", description |-> "search the web",
     parameters |-> [type |-> "object",
                     properties |-> [query |-> [type |-> "string"],
                                     count |-> [type |-> "integer",
                                                minimum |-> 1, maximum |-> 10]],
                     required |-> <<"query">>]]
WebFetchTool ==
    [name |-> "web_fetch", description |-> "fetch a page",
     parameters |-> [type |-> "object",
                     properties |->
                        [url |-> [type |-> "string"],
                         extractMode |-> [type |-> "string",
                                          enum |-> <<PyStr(<<"markdown">>),
                                                     PyStr(<<"text">>)>>],
                         maxChars |-> [type |-> "integer", minimum |-> 100]],
                     required |-> <<"url">>]]

\* AgentLoop._register_default_tools
DefaultTools ==
    LET r1 == register(<<>>, ReadFileTool)
        r2 == register(r1, WriteFileTool)
        r3 == register(r2, EditFileTool)
        r4 == register(r3, ListDirTool)
        r5 == register(r4, ExecTool)
        r6 == register(r5, WebSearchTool)
        r7 == register(r6, WebFetchTool)
        r8 == register(r7, MessageTool)
    IN  register(r8, SpawnTool)

\* a subagent that is given the tools of the main agent
SubagentToolsOfMain == DefaultTools

\* the registry _run_subagent builds: no message tool, no spawn tool
SubagentTools ==
    LET r1 == register(<<>>, ReadFileTool)
        r2 == register(r1, WriteFileTool)
        r3 == register(r2, ListDirTool)
        r4 == register(r3, ExecTool)
        r5 == register(r4, WebSearchTool)
    IN  register(r5, WebFetchTool)

FallbackDirect ==
    PyStr(<<"I've completed processing but have no response to give.">>)
FallbackSystem == PyStr(<<"Background task completed.">>)

\* a turn that forgets its fallback text
FinalContentAsIs(msg, final_content) == final_content

\* if final_content is None: final_content = <the fallback of the route>
FinalContent(msg, final_content) ==
    IF final_content.type = "none"
    THEN (IF IsSystem(msg) THEN FallbackSystem ELSE FallbackDirect)
    ELSE final_content

\* a user turn that is logged without the mark of a system message
UserTurnContentPlain(msg) == msg.content

\* the content of the user turn a turn appends to the session
UserTurnContent(msg) ==
    IF IsSystem(msg)
    THEN PyStr(<<"[System: ", msg.sender_id, "] ">> \o msg.content.v)
    ELSE msg.content

\* the OutboundMessage _process_message or _process_system_message returns
Reply(msg, content) ==
    OutboundMessage(Resolved(msg).channel, Resolved(msg).chat_id, content)

\* the OutboundMessage the except branch of run() publishes
Apology(msg, exc) ==
    OutboundMessage(msg.channel, msg.chat_id,
                    PyStr(<<"Sorry, I encountered an error: ">> \o exc))

----------------------------------------------------------------------------
(* MultiBotManager and its BotInstances: one group chat, every bot answers *)

\* the bots of self.bots, in configuration order (those with an API key)
Bots == <<"A", "B">>
BotIds == 1..Len(Bots)

\* bounds of the source, scaled: _max_history (50), max_iterations of
\* process_message (10), the size that triggers pruning of the reply-count
\* table (100) and the entries pruning keeps (50); max_rounds_per_topic is
\* configuration
max_history == 4
bot_max_iterations == 1
topic_table_limit == 1
topic_table_keep == 1
max_rounds_per_topic == 1
\* msg.content[:50]
topic_chars == 50

\* an inbound message of the group chat with its metadata["sender_type"]
GroupMessage(sender_id, sender_type, content) ==
    [channel |-> TG, sender_id |-> sender_id, chat_id |-> Chat42,
     content |-> content, sender_type |-> sender_type]

Take(seq, n) == SubSeq(seq, 1, IF Len(seq) < n THEN Len(seq) ELSE n)
LastN(seq, n) == SubSeq(seq, IF Len(seq) > n THEN Len(seq) - n + 1 ELSE 1, Len(seq))
StartsWith(seq, pre) == Len(pre) <= Len(seq) /\ SubSeq(seq, 1, Len(pre)) = pre

\* f"{msg.chat_id}:{msg.content[:50]}"
TopicKey(msg) == msg.chat_id \o <<":">> \o Take(msg.content.v, topic_chars)

\* self._topic_reply_counts.get(topic_key, 0)
CountOf(table, key) ==
    IF \E i \in 1..Len(table) : table[i][1] = key
    THEN table[CHOOSE i \in 1..Len(table) : table[i][1] = key][2]
    ELSE 0

\* self._topic_reply_counts[topic_key] = n, then the pruning of the table:
\* a dict keeps the position of a key it has, pruning pops the oldest keys
SetCount(table, key, n) ==
    LET set == IF \E i \in 1..Len(table) : table[i][1] = key
               THEN [i \in 1..Len(table) |->
                        IF table[i][1] = key THEN <<key, n>> ELSE table[i]]
               ELSE Append(table, <<key, n>>)
    IN  IF Len(set) > topic_table_limit
        THEN SubSeq(set, (IF Len(set) > topic_table_keep
                          THEN Len(set) - topic_table_keep ELSE 0) + 1, Len(set))
        ELSE set

\* name_prefix: the name of the bot between the brackets U+3010 and U+3011,
\* written "[[" and "]]" here
NamePrefix(name) == <<"[[", name, "]]">>

\* the reply with the bot's name in front, unless it starts with it already
WithNamePrefix(name, final_content) ==
    IF StartsWith(final_content.v, NamePrefix(name)) THEN final_content
    ELSE PyStr(NamePrefix(name) \o <<": ">> \o final_content.v)

\* a history that keeps its oldest entries when it is full
TrimOldest(history) == Take(history, max_history)

\* self._group_history[-self._max_history:]
Trim(history) == LastN(history, max_history)

\* MultiBotManager._add_to_history
HistoryEntry(role, content, sender) ==
    IF sender # "" /\ role = "user"
    THEN [role |-> "user",
          content |-> PyStr(<<"[", sender, "]: ">> \o content.v)]
    ELSE [role |-> role, content |-> content]
_add_to_history(history, role, content, sender) ==
    LET h == Append(history, HistoryEntry(role, content, sender))
    IN  IF Len(h) > max_history THEN Trim(h) ELSE h

\* what gather holds for a bot: nothing yet, None, or the returned text
Pending == [kind |-> "pending", why |-> "", content |-> None]
NoReply(why) == [kind |-> "none", why |-> why, content |-> None]
Replied(content) == [kind |-> "reply", why |-> "", content |-> content]
Idle == [kind |-> "idle", why |-> "", content |-> None]

\* MultiBotManager.__init__ and BotInstance.__init__
MbInit ==
    /\ mb_running = FALSE
    /\ mpc = "created"
    /\ mmsg = NoInbound
    /\ group_history = <<>>
    /\ topic_reply_counts = [b \in BotIds |-> <<>>]
    /\ biter = [b \in BotIds |-> 0]
    /\ responses = [b \in BotIds |-> Idle]
    /\ midx = 0
    /\ contexts = [b \in BotIds |-> <<>>]
    /\ chat_log = <<>>
    /\ sent = <<>>
    /\ asked = [b \in BotIds |-> 0]
    /\ returned = [b \in BotIds |-> <<>>]

\* MultiBotManager.run up to its first wait
MbStart ==
    /\ mpc = "created"
    /\ mb_running' = TRUE
    /\ mpc' = "wait"
    /\ UNCHANGED <<bw, stops, direct, regVars, queueVars, busVars, agentVars, mmsg,
                   group_history, topic_reply_counts, biter, responses, midx,
                   contexts, chat_log, sent, asked, returned>>

\* MultiBotManager.stop
MbStop ==
    /\ mb_running' = FALSE
    /\ UNCHANGED <<bw, stops, direct, regVars, queueVars, busVars, agentVars, mpc, mmsg,
                   group_history, topic_reply_counts, biter, responses, midx,
                   contexts, chat_log, sent, asked, returned>>

\* wait_for(self.bus.consume_inbound(), 1.0) times out: continue
MbTimeout ==
    /\ mpc = "wait"
    /\ inbound = <<>>
    /\ mpc' = AfterPass(mb_running)
    /\ UNCHANGED <<bw, stops, direct, regVars, queueVars, busVars, agentVars, mb_running,
                   mmsg, group_history, topic_reply_counts, biter, responses,
                   midx, contexts, chat_log, sent, asked, returned>>

\* a message whose sender_type is "bot" is dropped: continue
MbSkipBotMessage ==
    /\ mpc = "wait"
    /\ inbound # <<>>
    /\ Head(inbound).sender_type = "bot"
    /\ inbound' = Tail(inbound)
    /\ mpc' = AfterPass(mb_running)
    /\ UNCHANGED <<bw, stops, direct, regVars, outbound, busVars, agentVars, mb_running,
                   mmsg, group_history, topic_reply_counts, biter, responses,
                   midx, contexts, chat_log, sent, asked, returned>>

\* a zip loop that ends at the first bot without a reply
RepliesFromUntilNone(resp, i) ==
    {j \in BotIds : j >= i /\ \A h \in i..j : resp[h].kind = "reply"}

\* the bots from position i on whose response the zip loop publishes: an
\* exception and None are passed over (continue)
RepliesFrom(resp, i) == {j \in BotIds : j >= i /\ resp[j].kind = "reply"}

MinOf(S) == CHOOSE x \in S : \A y \in S : x <= y

\* the responses of gather are in: the zip loop starts, or, with no reply to
\* publish, run() goes round
AfterGather(resp) ==
    IF \E b \in BotIds : resp[b].kind = "pending"
    THEN mpc' = "gather" /\ midx' = 0
    ELSE IF RepliesFrom(resp, 1) # {}
         THEN mpc' = "publish" /\ midx' = 1
         ELSE mpc' = AfterPass(mb_running) /\ midx' = 0

\* process_message up to its first model call: None at the round limit of
\* the topic, else the model is asked with a copy of the group history
FirstResponse(b, msg) ==
    IF CountOf(topic_reply_counts[b], TopicKey(msg)) >= max_rounds_per_topic
    THEN NoReply("rounds")
    ELSE Pending

\* a user message arrives: it goes into the history and _broadcast_to_bots
\* starts process_message of every bot
MbAccept ==
    /\ mpc = "wait"
    /\ inbound # <<>>
    /\ Head(inbound).sender_type # "bot"
    /\ LET msg == Head(inbound)
           history == _add_to_history(group_history, "user", msg.content,
                                      msg.sender_id)
           resp == [b \in BotIds |-> FirstResponse(b, msg)]
       IN  /\ inbound' = Tail(inbound)
           /\ mmsg' = msg
           /\ group_history' = history
           /\ chat_log' = Append(chat_log, HistoryEntry("user", msg.content,
                                                        msg.sender_id))
           /\ responses' = resp
           /\ contexts' = [b \in BotIds |->
                              IF resp[b].kind = "pending" THEN history ELSE <<>>]
           /\ biter' = [b \in BotIds |-> 0]
           /\ asked' = [b \in BotIds |-> 1]
           /\ sent' = <<>>
           /\ AfterGather(resp)
    /\ UNCHANGED <<bw, stops, direct, regVars, outbound, busVars, agentVars, mb_running,
                   topic_reply_counts, returned>>

\* provider.chat of bot b returns: its tool calls are executed and the model
\* is asked again, or the content of the response is the reply
BotChatReturns(b, response) ==
    /\ mpc = "gather"
    /\ responses[b].kind = "pending"
    /\ IF has_tool_calls(response) /\ biter[b] < bot_max_iterations
       THEN /\ biter' = [biter EXCEPT ![b] = @ + 1]
            /\ UNCHANGED <<responses, topic_reply_counts, mpc, midx, returned>>
       ELSE LET final_content == response.content
                key == TopicKey(mmsg)
                said == final_content.type # "none" /\ final_content.v # <<>>
                resp == [responses EXCEPT ![b] =
                            IF said
                            THEN Replied(WithNamePrefix(Bots[b], final_content))
                            ELSE IF final_content.type = "none"
                                 THEN NoReply("empty")
                                 ELSE Replied(final_content)]
            IN  /\ responses' = resp
                /\ topic_reply_counts' =
                      IF said
                      THEN [topic_reply_counts EXCEPT ![b] =
                               SetCount(@, key, CountOf(@, key) + 1)]
                      ELSE topic_reply_counts
                /\ returned' =
                      IF resp[b].kind = "reply"
                      THEN [returned EXCEPT ![b] = Append(@, key)]
                      ELSE returned
                /\ AfterGather(resp)
                /\ UNCHANGED biter
    /\ UNCHANGED <<bw, stops, direct, regVars, queueVars, busVars, agentVars, mb_running,
                   mmsg, group_history, contexts, chat_log, sent, asked>>

\* provider.chat of bot b raises: process_message logs it and returns None
BotChatRaises(b, exc) ==
    /\ mpc = "gather"
    /\ responses[b].kind = "pending"
    /\ responses' = [responses EXCEPT ![b] = NoReply("error")]
    /\ AfterGather(responses')
    /\ UNCHANGED <<bw, stops, direct, regVars, queueVars, busVars, agentVars, mb_running,
                   mmsg, group_history, topic_reply_counts, biter, contexts,
                   chat_log, sent, asked, returned>>

\* the zip loop reaches the next bot that returned a text: after the delay
\* the reply is published and added to the history
MbPublish ==
    /\ mpc = "publish"
    /\ RepliesFrom(responses, midx) # {}
    /\ LET k == MinOf(RepliesFrom(responses, midx))
           response == responses[k].content
       IN  /\ outbound' = publish_outbound(outbound,
                              OutboundMessage(mmsg.channel, mmsg.chat_id,
                                              response))
           /\ group_history' = _add_to_history(group_history, "assistant",
                                               response, Bots[k])
           /\ chat_log' = Append(chat_log,
                                 HistoryEntry("assistant", response, Bots[k]))
           /\ sent' = Append(sent, k)
           /\ IF RepliesFrom(responses, k + 1) # {}
              THEN mpc' = "publish" /\ midx' = k + 1
              ELSE mpc' = AfterPass(mb_running) /\ midx' = 0
    /\ UNCHANGED <<bw, stops, direct, regVars, inbound, busVars, agentVars, mb_running,
                   mmsg, topic_reply_counts, biter, responses, contexts, asked, returned>>

----------------------------------------------------------------------------
(* BotWorker: one bot of the group chat.  The event thread runs
   _on_message_handler for every human message; the worker thread runs the
   coroutines process_and_reply, each of which ends in _discussion_poll_loop.
   One group chat is modelled; its messages are numbered as they are posted. *)

\* NANOBOT_MULTI_BOT_MAX_ROUNDS (3 by default)
max_discussion_rounds == 1

\* a message of the group chat as fetch_recent_messages returns it
ChatMessage(msg_id, sender_type, by, cmd) ==
    [msg_id |-> msg_id, sender_type |-> sender_type, by |-> by, cmd |-> cmd]

is_mute_command(m) == m.cmd = "mute"
is_unmute_command(m) == m.cmd = "unmute"

\* the content holds the name of this bot between its brackets
IsOwn(m) == m.by = "me"

\* BotWorker.__init__ and an empty chat
WorkerInit ==
    [muted |-> FALSE, discussion_active |-> FALSE, discussion_rounds |-> 0,
     last_seen_msg_id |-> 0, chat |-> <<>>, events |-> <<>>, loops |-> <<>>,
     log |-> <<>>]

\* _send_feishu_message_sync: the message is in the chat
Posted(chat, sender_type, by, cmd) ==
    Append(chat, ChatMessage(Len(chat) + 1, sender_type, by, cmd))

\* a human posts a message, a mute or an unmute command; Feishu will
\* deliver the event to the handler
HumanPosts(cmd) ==
    /\ bw' = [bw EXCEPT !.chat = Posted(@, "user", "human", cmd),
                        !.events = Append(@, ChatMessage(Len(bw.chat) + 1,
                                                         "user", "human", cmd))]
    /\ UNCHANGED coreVars

\* another bot of the group posts a message
OtherBotPosts ==
    /\ bw' = [bw EXCEPT !.chat = Posted(@, "app", "other", "text")]
    /\ UNCHANGED coreVars

\* the coroutine process_and_reply the handler submits for a human message
NewCoroutine(trigger_msg_id) ==
    [pc |-> "delay", trigger |-> trigger_msg_id, current_round |-> 0]

\* _on_message_handler for the next event
OnMessage ==
    /\ bw.events # <<>>
    /\ LET m == Head(bw.events)
           w == [bw EXCEPT !.events = Tail(@)]
       IN  bw' =
             IF is_mute_command(m)
             THEN [w EXCEPT !.muted = TRUE,
                            !.discussion_active = FALSE,
                            !.chat = Posted(@, "app", "me", "ack"),
                            !.log = Append(@, "mute")]
             ELSE IF is_unmute_command(m)
             THEN [w EXCEPT !.muted = FALSE,
                            !.discussion_rounds = 0,
                            !.chat = Posted(@, "app", "me", "ack"),
                            !.log = Append(@, "unmute")]
             ELSE [w EXCEPT !.discussion_rounds = 0,
                            !.loops = Append(@, NewCoroutine(m.msg_id)),
                            !.log = Append(@, "human")]
    /\ UNCHANGED coreVars

\* the test of `while` in _discussion_poll_loop for coroutine i: the loop
\* sleeps for the poll interval, or it is left and the discussion is marked
\* inactive
WhileTop(w, i, timed_out) ==
    IF /\ ~w.muted
       /\ w.discussion_active
       /\ w.discussion_rounds < max_discussion_rounds
       /\ ~timed_out
    THEN [w EXCEPT !.loops[i].pc = "poll"]
    ELSE [w EXCEPT !.loops[i].pc = "done", !.discussion_active = FALSE]

\* break
Break(w, i) == [w EXCEPT !.loops[i].pc = "done", !.discussion_active = FALSE]

\* process_and_reply: the random delay is over, _call_llm awaits the model
ReplyDelayEnds(i) ==
    /\ bw.loops[i].pc = "delay"
    /\ bw' = [bw EXCEPT !.loops[i].pc = "llm"]
    /\ UNCHANGED coreVars

\* _call_llm(must_reply=True) returns a text, which is handed to the
\* executor to be sent, or None
ReplyLlmReturns(i, has_text) ==
    /\ bw.loops[i].pc = "llm"
    /\ bw' = IF has_text
             THEN [bw EXCEPT !.loops[i].pc = "send",
                             !.chat = Posted(@, "app", "me", "reply"),
                             !.log = Append(@, "reply")]
             ELSE [bw EXCEPT !.loops[i].pc = "done"]
    /\ UNCHANGED coreVars

\* the send has returned: the latest message is marked as seen and, unless
\* muted, the discussion becomes active and the coroutine sleeps 8 seconds
ReplySent(i) ==
    /\ bw.loops[i].pc = "send"
    /\ bw' = IF ~bw.muted
             THEN [bw EXCEPT !.last_seen_msg_id = Len(bw.chat),
                             !.discussion_active = TRUE,
                             !.loops[i].pc = "presleep"]
             ELSE [bw EXCEPT !.last_seen_msg_id = Len(bw.chat),
                             !.loops[i].pc = "done"]
    /\ UNCHANGED coreVars

\* _discussion_poll_loop is entered
PollStarts(i, timed_out) ==
    /\ bw.loops[i].pc = "presleep"
    /\ bw' = WhileTop(bw, i, timed_out)
    /\ UNCHANGED coreVars

\* one pass of the poll loop from the end of its sleep to its next await:
\* the history is fetched and its last message decides
PollWakes(i, skips, timed_out) ==
    /\ bw.loops[i].pc = "poll"
    /\ bw' =
         IF bw.muted \/ ~bw.discussion_active THEN Break(bw, i)
         ELSE IF bw.chat = <<>> THEN WhileTop(bw, i, timed_out)
         ELSE LET last_msg == bw.chat[Len(bw.chat)]
                  w == [bw EXCEPT !.last_seen_msg_id = last_msg.msg_id]
              IN  IF last_msg.msg_id = bw.last_seen_msg_id
                  THEN WhileTop(bw, i, timed_out)
                  ELSE IF last_msg.sender_type = "user"
                  THEN IF is_mute_command(last_msg)
                       THEN Break([w EXCEPT !.muted = TRUE], i)
                       ELSE IF is_unmute_command(last_msg)
                       THEN WhileTop([w EXCEPT !.discussion_rounds = 0], i,
                                     timed_out)
                       ELSE IF last_msg.msg_id = bw.loops[i].trigger
                       THEN WhileTop(w, i, timed_out)
                       ELSE Break(w, i)
                  ELSE IF IsOwn(last_msg) THEN WhileTop(w, i, timed_out)
                  ELSE IF w.discussion_rounds >= max_discussion_rounds
                  THEN Break(w, i)
                  ELSE IF skips THEN WhileTop(w, i, timed_out)
                  ELSE [w EXCEPT !.loops[i].pc = "reply_delay",
                                 !.loops[i].current_round = w.discussion_rounds]
    /\ UNCHANGED coreVars

\* the delay before a discussion reply is over, _call_llm awaits the model
DiscussionDelayEnds(i) ==
    /\ bw.loops[i].pc = "reply_delay"
    /\ bw' = [bw EXCEPT !.loops[i].pc = "reply_llm"]
    /\ UNCHANGED coreVars

\* _call_llm returns a text, which is handed to the executor to be sent,
\* or None, which ends the discussion
DiscussionLlmReturns(i, has_text) ==
    /\ bw.loops[i].pc = "reply_llm"
    /\ bw' = IF has_text
             THEN [bw EXCEPT !.loops[i].pc = "reply_send",
                             !.chat = Posted(@, "app", "me", "free"),
                             !.log = Append(@, "free")]
             ELSE Break(bw, i)
    /\ UNCHANGED coreVars

\* the send has returned: the round is counted and the loop goes round
DiscussionSent(i, timed_out) ==
    /\ bw.loops[i].pc = "reply_send"
    /\ bw' = WhileTop([bw EXCEPT !.discussion_rounds =
                          bw.loops[i].current_round + 1],
                      i, timed_out)
    /\ UNCHANGED coreVars

NoTurn ==
    [calls |-> 0, allTools |-> TRUE, toolRaised |-> FALSE, base |-> 0,
     resp |-> <<>>, raisedIds |-> {}]
NoLast ==
    [kind |-> "", msg |-> NoInbound, out |-> NoOutbound, calls |-> 0,
     allTools |-> FALSE, toolRaised |-> FALSE, key |-> <<>>, final |-> None]

\* no call of process_direct is in progress
NoDirect ==
    [pc |-> "idle", msg |-> NoInbound, messages |-> <<>>, iteration |-> 0,
     pending |-> <<>>, started |-> 0, returned |-> None, raised |-> <<>>]

\* AgentLoop.__init__ with its SubagentManager and tools
AgentInit ==
    /\ loop_running = FALSE
    /\ lpc = "created"
    /\ cur = NoInbound
    /\ messages = <<>>
    /\ iteration = 0
    /\ pending = <<>>
    /\ sessions = [k \in {} |-> <<>>]
    /\ message_ctx = [channel |-> <<>>, chat_id |-> <<>>]
    /\ spawn_ctx = [channel |-> CLI, chat_id |-> Direct]
    /\ turn = NoTurn
    /\ last = NoLast
    /\ published = 0
    /\ tasks = <<>>
    /\ running_tasks = [k \in {} |-> 0]
    /\ direct = NoDirect
    /\ stops = [loop |-> FALSE, bus |-> FALSE]
    /\ bw = WorkerInit
    /\ MbInit

\* run() up to its first wait
LoopStart ==
    /\ lpc = "created"
    /\ loop_running' = TRUE
    /\ lpc' = "wait"
    /\ UNCHANGED <<bw, stops, mbVars, direct, regVars, queueVars, busVars, subVars, cur, messages,
                   iteration, pending, sessions, message_ctx, spawn_ctx, turn,
                   last, published>>

\* AgentLoop.stop()
LoopStop ==
    /\ loop_running' = FALSE
    /\ stops' = [stops EXCEPT !.loop = TRUE]
    /\ UNCHANGED <<bw, mbVars, direct, regVars, queueVars, busVars, subVars, lpc, cur, messages,
                   iteration, pending, sessions, message_ctx, spawn_ctx, turn,
                   last, published>>

\* wait_for(self.bus.consume_inbound(), 1.0) times out: continue
LoopTimeout ==
    /\ lpc = "wait"
    /\ inbound = <<>>
    /\ lpc' = AfterPass(loop_running)
    /\ UNCHANGED <<bw, stops, mbVars, direct, regVars, queueVars, busVars, subVars, loop_running, cur,
                   messages, iteration, pending, sessions, message_ctx,
                   spawn_ctx, turn, last, published>>

\* The end of a turn of msg that produced final_content: the session gets the
\* user and the assistant turn and is saved, run() publishes the reply and
\* tests its flag.  The locals of the turn are gone.
Finish(msg, store, outq, final_content, obs) ==
    LET key == ResolvedKey(msg)
        content == FinalContent(msg, final_content)
        reply == Reply(msg, content)
    IN  /\ sessions' = add_message(add_message(store, key, "user",
                                               UserTurnContent(msg)),
                                   key, "assistant", content)
        /\ outbound' = publish_outbound(outq, reply)
        /\ cur' = NoInbound
        /\ messages' = <<>>
        /\ iteration' = 0
        /\ pending' = <<>>
        /\ lpc' = AfterPass(loop_running)
        /\ turn' = NoTurn
        /\ last' = [kind |-> "reply", msg |-> msg,
                    out |-> reply, calls |-> obs.calls,
                    allTools |-> obs.allTools, toolRaised |-> obs.toolRaised,
                    key |-> key, final |-> final_content]

\* The top of `while iteration < self.max_iterations` with the message list
\* msgs: the next model call is issued, or the turn ends with no answer.
LoopTop(msg, store, outq, msgs, iter, obs) ==
    IF iter < max_iterations
    THEN /\ iteration' = iter + 1
         /\ messages' = msgs
         /\ pending' = <<>>
         /\ lpc' = "chat"
         /\ turn' = [obs EXCEPT !.calls = @ + 1]
         /\ sessions' = store
         /\ outbound' = outq
         /\ cur' = msg
         /\ UNCHANGED last
    ELSE Finish(msg, store, outq, None, obs)

\* wait_for returns a message and _process_message (or, for channel
\* "system", _process_system_message) runs up to its first model call
LoopConsume ==
    /\ lpc = "wait"
    /\ inbound # <<>>
    /\ LET msg == Head(inbound)
           to == Resolved(msg)
           key == ResolvedKey(msg)
           store == get_or_create(sessions, key)
       IN  /\ inbound' = Tail(inbound)
           /\ message_ctx' = [channel |-> to.channel, chat_id |-> to.chat_id]
           /\ spawn_ctx' = [channel |-> to.channel, chat_id |-> to.chat_id]
           /\ LoopTop(msg, store, outbound,
                      build_messages(get_history(store, key), msg.content), 0,
                      NoTurn)
    /\ UNCHANGED <<bw, stops, mbVars, direct, regVars, busVars, subVars, loop_running, published>>

\* provider.chat returns a response
ChatReturns(response) ==
    /\ lpc = "chat"
    /\ IF has_tool_calls(response)
       THEN /\ messages' = add_assistant_message(messages, response.content,
                               ToolCallDicts(response.tool_calls))
            /\ pending' = response.tool_calls
            /\ lpc' = "tool"
            /\ turn' = [turn EXCEPT !.base = Len(messages),
                                    !.resp = response.tool_calls,
                                    !.raisedIds = {}]
            /\ UNCHANGED <<cur, iteration, sessions, outbound, last>>
       ELSE Finish(cur, sessions, outbound, response.content,
                   [turn EXCEPT !.allTools = FALSE, !.resp = <<>>])
    /\ UNCHANGED <<bw, stops, mbVars, direct, regVars, inbound, busVars, subVars, loop_running,
                   message_ctx, spawn_ctx, published>>

\* a failing turn that has logged its user turn before the model call
ChatRaisesUserLogged(exc) ==
    /\ lpc = "chat"
    /\ outbound' = publish_outbound(outbound, Apology(cur, exc))
    /\ lpc' = AfterPass(loop_running)
    /\ sessions' = add_message(sessions, ResolvedKey(cur), "user",
                            UserTurnContent(cur))
    /\ cur' = NoInbound
    /\ messages' = <<>>
    /\ iteration' = 0
    /\ pending' = <<>>
    /\ turn' = NoTurn
    /\ last' = [kind |-> "apology", msg |-> cur,
                out |-> Apology(cur, exc), calls |-> turn.calls,
                allTools |-> FALSE, toolRaised |-> turn.toolRaised,
                key |-> ResolvedKey(cur), final |-> None]
    /\ UNCHANGED <<bw, stops, mbVars, direct, regVars, inbound, busVars, subVars, loop_running,
                   message_ctx, spawn_ctx, published>>

\* a failing turn that run() passes over in silence
ChatRaisesSilent(exc) ==
    /\ lpc = "chat"
    /\ outbound' = outbound
    /\ lpc' = AfterPass(loop_running)
    /\ cur' = NoInbound
    /\ messages' = <<>>
    /\ iteration' = 0
    /\ pending' = <<>>
    /\ turn' = NoTurn
    /\ last' = [kind |-> "apology", msg |-> cur,
                out |-> Apology(cur, exc), calls |-> turn.calls,
                allTools |-> FALSE, toolRaised |-> turn.toolRaised,
                key |-> ResolvedKey(cur), final |-> None]
    /\ UNCHANGED <<bw, stops, mbVars, direct, regVars, inbound, busVars, subVars, loop_running,
                   sessions, message_ctx, spawn_ctx, published>>

\* provider.chat raises: the exception leaves _process_message and run()
\* publishes its apology
ChatRaises(exc) ==
    /\ lpc = "chat"
    /\ outbound' = publish_outbound(outbound, Apology(cur, exc))
    /\ lpc' = AfterPass(loop_running)
    /\ cur' = NoInbound
    /\ messages' = <<>>
    /\ iteration' = 0
    /\ pending' = <<>>
    /\ turn' = NoTurn
    /\ last' = [kind |-> "apology", msg |-> cur,
                out |-> Apology(cur, exc), calls |-> turn.calls,
                allTools |-> FALSE, toolRaised |-> turn.toolRaised,
                key |-> ResolvedKey(cur), final |-> None]
    /\ UNCHANGED <<bw, stops, mbVars, direct, regVars, inbound, busVars, subVars, loop_running,
                   sessions, message_ctx, spawn_ctx, published>>

\* what follows one tool call of the for loop, its result appended
AfterTool(result, outq, raised) ==
    LET tc == Head(pending)
        msgs == add_tool_result(messages, tc.id, tc.name, result)
        obs == IF raised
               THEN [turn EXCEPT !.toolRaised = TRUE,
                                 !.raisedIds = @ \cup {Len(turn.resp) - Len(pending) + 1}]
               ELSE turn
    IN  IF Len(pending) > 1
        THEN /\ messages' = msgs
             /\ pending' = Tail(pending)
             /\ turn' = obs
             /\ outbound' = outq
             /\ UNCHANGED <<cur, lpc, iteration, sessions, last>>
        ELSE LoopTop(cur, sessions, outq, msgs, iteration, obs)

Invoked(reg, tc) == execute(reg, tc.name, tc.arguments, Return(None)).invoked

\* a tool call the registry answers itself: unknown name or invalid params
ToolRefused ==
    /\ lpc = "tool"
    /\ ~Invoked(tools, Head(pending))
    /\ AfterTool(execute(tools, Head(pending).name, Head(pending).arguments,
                         Return(None)).result,
                 outbound, FALSE)
    /\ UNCHANGED <<bw, stops, mbVars, direct, regVars, inbound, busVars, subVars, loop_running,
                   message_ctx, spawn_ctx, published>>

\* a tool call that reaches a capability other than message and spawn
ToolCalled(outcome) ==
    /\ lpc = "tool"
    /\ Invoked(tools, Head(pending))
    /\ Head(pending).name \notin {"message", "spawn"}
    /\ AfterTool(execute(tools, Head(pending).name, Head(pending).arguments,
                         outcome).result,
                 outbound, outcome.kind = "raise")
    /\ UNCHANGED <<bw, stops, mbVars, direct, regVars, inbound, busVars, subVars, loop_running,
                   message_ctx, spawn_ctx, published>>

\* an argument of a call, None when the key is absent
Arg(args, k) == IF k \in Keys(PyDict(args)) THEN Get(PyDict(args), k) ELSE None
Truthy(x) == x.type # "none" /\ x.v # <<>>

\* MessageTool.execute: the target, the outbound message and the result
MessageTarget(args, ctx) ==
    [channel |-> IF Truthy(Arg(args, "channel")) THEN Arg(args, "channel").v
                 ELSE ctx.channel,
     chat_id |-> IF Truthy(Arg(args, "chat_id")) THEN Arg(args, "chat_id").v
                 ELSE ctx.chat_id]

ToolMessage ==
    /\ lpc = "tool"
    /\ Invoked(tools, Head(pending))
    /\ Head(pending).name = "message"
    /\ LET args == Head(pending).arguments
           to == MessageTarget(args, message_ctx)
       IN  IF to.channel = <<>> \/ to.chat_id = <<>>
           THEN AfterTool(PyStr(<<"no target channel/chat">>), outbound, FALSE)
           ELSE AfterTool(PyStr(<<"message sent to ">> \o
                                JoinKey(to.channel, to.chat_id)),
                          publish_outbound(outbound,
                              OutboundMessage(to.channel, to.chat_id,
                                              Arg(args, "content"))),
                          FALSE)
    /\ UNCHANGED <<bw, stops, mbVars, direct, regVars, inbound, busVars, subVars, loop_running,
                   message_ctx, spawn_ctx, published>>

----------------------------------------------------------------------------
(* SubagentManager *)

\* the iteration budget of _run_subagent (15 in the source)
sub_max_iterations == 2

\* str(uuid.uuid4())[:8]: some eight characters
TaskIds == {"a1b2c3d4", "e5f6a7b8"}

\* label or task[:30] + ("..." if len(task) > 30 else "")
DisplayLabel(label, task) ==
    IF Truthy(label) THEN label.v
    ELSE SubSeq(task.v, 1, IF Len(task.v) < 30 THEN Len(task.v) ELSE 30)
         \o (IF Len(task.v) > 30 THEN <<"...">> ELSE <<>>)

\* the coroutine object create_task schedules: _run_subagent has not run yet
NewTask(task_id, task, label, origin) ==
    [task_id |-> task_id, label |-> DisplayLabel(label, task), task |-> task,
     origin |-> origin, pc |-> "created", iteration |-> 0, messages |-> <<>>,
     pending |-> <<>>, announced |-> <<>>, calls |-> 0, base |-> 0,
     resp |-> <<>>, failed |-> <<>>]

SpawnAck(label, task_id) ==
    PyStr(<<"Subagent [">> \o label \o
          <<"] started (id: ", task_id, "). I'll notify you when it completes.">>)

\* self._running_tasks[task_id] = bg_task
TrackTask(running, task_id, t) ==
    [k \in DOMAIN running \cup {task_id} |->
        IF k = task_id THEN t ELSE running[k]]

\* a done callback that removes nothing
DoneCallbackKeeps(running, task_id) == running

\* the done callback: self._running_tasks.pop(task_id, None)
DoneCallback(running, task_id) ==
    [k \in DOMAIN running \ {task_id} |-> running[k]]

\* SubagentManager.get_running_count
get_running_count == Cardinality(DOMAIN running_tasks)

\* SubagentManager.spawn up to its return: the task is created and tracked
spawn(task_id, task, label, origin) ==
    /\ tasks' = Append(tasks, NewTask(task_id, task, label, origin))
    /\ running_tasks' = TrackTask(running_tasks, task_id, Len(tasks) + 1)

\* SpawnTool.execute, that is SubagentManager.spawn with the origin the
\* tool holds; its acknowledgement is the result of the tool call
ToolSpawn(task_id) ==
    /\ lpc = "tool"
    /\ Invoked(tools, Head(pending))
    /\ Head(pending).name = "spawn"
    /\ LET args == Head(pending).arguments
       IN  /\ spawn(task_id, Arg(args, "task"), Arg(args, "label"),
                    [channel |-> spawn_ctx.channel,
                     chat_id |-> spawn_ctx.chat_id])
           /\ AfterTool(SpawnAck(DisplayLabel(Arg(args, "label"),
                                              Arg(args, "task")), task_id),
                        outbound, FALSE)
    /\ UNCHANGED <<bw, stops, mbVars, direct, regVars, inbound, busVars, loop_running, message_ctx,
                   spawn_ctx, published>>

SubagentPrompt(task) == PyStr(<<"# Subagent ... Your Task ">> \o task.v)

SubFallback == PyStr(<<"Task completed but no final response was generated.">>)

\* an announcement that reports every task as completed
AnnounceContentAlwaysOk(label, task, result, status) ==
    PyStr(<<"[Subagent '">> \o label
          \o <<"' ", "completed successfully", "] Task: ">> \o task.v
          \o <<" Result: ">> \o result.v
          \o <<" Summarize this naturally for the user.">>)

\* the announce_content of _announce_result
AnnounceContent(label, task, result, status) ==
    PyStr(<<"[Subagent '">> \o label
          \o <<"' ", IF status = "ok" THEN "completed successfully" ELSE "failed",
               "] Task: ">> \o task.v \o <<" Result: ">> \o result.v
          \o <<" Summarize this naturally for the user.">>)

\* an announcement that carries the chat id of the origin only
AnnouncementChatOnly(t, result, status) ==
    [channel |-> <<"s", "y", "s", "t", "e", "m">>, sender_id |-> "subagent",
     chat_id |-> t.origin.chat_id, content |-> result]

\* the InboundMessage _announce_result publishes
Announcement(t, result, status) ==
    InboundMessage(SYSTEM, "subagent",
                   JoinKey(t.origin.channel, t.origin.chat_id),
                   AnnounceContent(t.label, t.task, result, status))

\* _announce_result, then the background task is done and its done callback
\* runs (no coroutine of the program reads _running_tasks in between)
SubFinish(i, t, result, status) ==
    /\ inbound' = publish_inbound(inbound, Announcement(t, result, status))
    /\ tasks' = [tasks EXCEPT ![i] =
                    [t EXCEPT !.pc = "done", !.pending = <<>>,
                              !.messages = <<>>, !.iteration = 0,
                              !.base = 0, !.resp = <<>>,
                              !.announced = Append(@, [status |-> status,
                                  msg |-> Announcement(t, result, status)])]]
    /\ running_tasks' = DoneCallback(running_tasks, t.task_id)

\* a subagent for which an exhausted budget is a failure
SubTopCapFails(i, t) ==
    IF t.iteration < sub_max_iterations
    THEN /\ tasks' = [tasks EXCEPT ![i] =
                        [t EXCEPT !.iteration = @ + 1, !.pc = "chat",
                                  !.pending = <<>>, !.calls = @ + 1]]
         /\ UNCHANGED <<inbound, running_tasks>>
    ELSE SubFinish(i, t, PyStr(<<"Error: ", "iteration limit">>), "error")

\* the top of the while loop of _run_subagent
SubTop(i, t) ==
    IF t.iteration < sub_max_iterations
    THEN /\ tasks' = [tasks EXCEPT ![i] =
                        [t EXCEPT !.iteration = @ + 1, !.pc = "chat",
                                  !.pending = <<>>, !.calls = @ + 1]]
         /\ UNCHANGED <<inbound, running_tasks>>
    ELSE SubFinish(i, t, SubFallback, "ok")

\* _run_subagent up to its first model call
SubStart(i) ==
    /\ tasks[i].pc = "created"
    /\ SubTop(i, [tasks[i] EXCEPT !.messages =
                     <<[role |-> "system", content |-> SubagentPrompt(tasks[i].task)],
                       [role |-> "user", content |-> tasks[i].task]>>])
    /\ UNCHANGED <<bw, stops, mbVars, direct, regVars, outbound, busVars, loopVars>>

\* provider.chat returns to a subagent
SubChatReturns(i, response) ==
    /\ tasks[i].pc = "chat"
    /\ IF has_tool_calls(response)
       THEN /\ tasks' = [tasks EXCEPT ![i] =
                [@ EXCEPT !.messages = Append(@,
                              [role |-> "assistant",
                               content |-> OrEmpty(response.content),
                               tool_calls |-> ToolCallDicts(response.tool_calls)]),
                          !.pending = response.tool_calls,
                          !.pc = "tool",
                          !.base = Len(tasks[i].messages),
                          !.resp = response.tool_calls]]
            /\ UNCHANGED <<inbound, running_tasks>>
       ELSE SubFinish(i, [tasks[i] EXCEPT !.resp = <<>>],
                      IF response.content.type = "none" THEN SubFallback
                      ELSE response.content,
                      "ok")
    /\ UNCHANGED <<bw, stops, mbVars, direct, regVars, outbound, busVars, loopVars>>

\* provider.chat raises in a subagent: `except Exception` announces the error
SubChatRaises(i, exc) ==
    /\ tasks[i].pc = "chat"
    /\ SubFinish(i, [tasks[i] EXCEPT !.failed = exc],
                 PyStr(<<"Error: ">> \o exc), "error")
    /\ UNCHANGED <<bw, stops, mbVars, direct, regVars, outbound, busVars, loopVars>>

\* what follows one tool call of a subagent, its result appended
SubAfterTool(i, result) ==
    LET t == tasks[i]
        tc == Head(t.pending)
        t2 == [t EXCEPT !.messages = Append(@,
                            [role |-> "tool", tool_call_id |-> tc.id,
                             name |-> tc.name, content |-> result]),
                        !.pending = Tail(@)]
    IN  IF Len(t.pending) > 1
        THEN /\ tasks' = [tasks EXCEPT ![i] = t2]
             /\ UNCHANGED <<inbound, running_tasks>>
        ELSE SubTop(i, t2)

\* a subagent's tool call that its registry answers itself
SubToolRefused(i) ==
    /\ tasks[i].pc = "tool"
    /\ ~Invoked(SubagentTools, Head(tasks[i].pending))
    /\ SubAfterTool(i, execute(SubagentTools, Head(tasks[i].pending).name,
                               Head(tasks[i].pending).arguments,
                               Return(None)).result)
    /\ UNCHANGED <<bw, stops, mbVars, direct, regVars, outbound, busVars, loopVars>>

\* a subagent's tool call that reaches a capability
SubToolCalled(i, outcome) ==
    /\ tasks[i].pc = "tool"
    /\ Invoked(SubagentTools, Head(tasks[i].pending))
    /\ SubAfterTool(i, execute(SubagentTools, Head(tasks[i].pending).name,
                               Head(tasks[i].pending).arguments,
                               outcome).result)
    /\ UNCHANGED <<bw, stops, mbVars, direct, regVars, outbound, busVars, loopVars>>

\* a caller other than the spawn tool awaits SubagentManager.spawn
Spawn(task_id, task, label, origin) ==
    /\ spawn(task_id, task, label, origin)
    /\ UNCHANGED <<bw, stops, mbVars, direct, regVars, queueVars, busVars, loopVars>>

\* a channel adapter publishes an inbound message
PublishInbound(m) ==
    /\ inbound' = publish_inbound(inbound, m)
    /\ published' = published + 1
    /\ UNCHANGED <<bw, stops, mbVars, direct, regVars, outbound, busVars, subVars, loop_running, lpc, cur,
                   messages, iteration, pending, sessions, message_ctx,
                   spawn_ctx, turn, last>>

----------------------------------------------------------------------------
(* AgentLoop.process_direct: a caller's task runs _process_message itself,
   beside the task that runs run() *)

\* the variables only run() and its turn write
runVars == <<loop_running, lpc, cur, messages, iteration, pending, turn, last,
             published>>

\* the InboundMessage process_direct builds: its session_key argument is not
\* used, the message is always cli/direct
DirectMessage(content) == InboundMessage(CLI, "user", Direct, content)

\* the end of the call: the session gets both turns and is saved, the content
\* of the OutboundMessage is returned to the caller, nothing is published
DirectFinish(d, store, outq, final_content) ==
    LET key == session_key(d.msg)
        content == FinalContent(d.msg, final_content)
    IN  /\ sessions' = add_message(add_message(store, key, "user",
                                               UserTurnContent(d.msg)),
                                   key, "assistant", content)
        /\ outbound' = outq
        /\ direct' = [NoDirect EXCEPT !.started = d.started,
                                      !.returned = Reply(d.msg, content).content]

\* the top of the while loop of _process_message in the caller's task
DirectTop(d, store, outq, msgs) ==
    IF d.iteration < max_iterations
    THEN /\ direct' = [d EXCEPT !.iteration = @ + 1, !.messages = msgs,
                                !.pending = <<>>, !.pc = "chat"]
         /\ sessions' = store
         /\ outbound' = outq
    ELSE DirectFinish(d, store, outq, None)

\* process_direct(content) up to its first model call
DirectCall(content) ==
    /\ direct.pc = "idle"
    /\ LET msg == DirectMessage(content)
           key == session_key(msg)
           store == get_or_create(sessions, key)
       IN  /\ message_ctx' = [channel |-> msg.channel, chat_id |-> msg.chat_id]
           /\ spawn_ctx' = [channel |-> msg.channel, chat_id |-> msg.chat_id]
           /\ DirectTop([NoDirect EXCEPT !.msg = msg,
                                         !.started = direct.started + 1],
                        store, outbound,
                        build_messages(get_history(store, key), msg.content))
    /\ UNCHANGED <<bw, stops, mbVars, regVars, inbound, busVars, subVars, runVars>>

\* provider.chat returns a response to the caller's turn
DirectChatReturns(response) ==
    /\ direct.pc = "chat"
    /\ IF has_tool_calls(response)
       THEN /\ direct' = [direct EXCEPT
                   !.messages = add_assistant_message(direct.messages,
                                    response.content,
                                    ToolCallDicts(response.tool_calls)),
                   !.pending = response.tool_calls,
                   !.pc = "tool"]
            /\ UNCHANGED <<sessions, outbound>>
       ELSE DirectFinish(direct, sessions, outbound, response.content)
    /\ UNCHANGED <<bw, stops, mbVars, regVars, inbound, busVars, subVars, runVars, message_ctx,
                   spawn_ctx>>

\* provider.chat raises: the exception reaches the caller of process_direct
DirectChatRaises(exc) ==
    /\ direct.pc = "chat"
    /\ direct' = [NoDirect EXCEPT !.started = direct.started, !.raised = exc]
    /\ UNCHANGED <<bw, stops, mbVars, regVars, queueVars, busVars, subVars, runVars, sessions,
                   message_ctx, spawn_ctx>>

\* what follows one tool call of the caller's turn, its result appended
DirectAfterTool(result, outq) ==
    LET tc == Head(direct.pending)
        msgs == add_tool_result(direct.messages, tc.id, tc.name, result)
    IN  IF Len(direct.pending) > 1
        THEN /\ direct' = [direct EXCEPT !.messages = msgs,
                                         !.pending = Tail(@)]
             /\ outbound' = outq
             /\ UNCHANGED sessions
        ELSE DirectTop(direct, sessions, outq, msgs)

\* MessageTool.execute in the caller's turn
DirectToolMessage ==
    /\ direct.pc = "tool"
    /\ Invoked(tools, Head(direct.pending))
    /\ Head(direct.pending).name = "message"
    /\ LET args == Head(direct.pending).arguments
           to == MessageTarget(args, message_ctx)
       IN  IF to.channel = <<>> \/ to.chat_id = <<>>
           THEN DirectAfterTool(PyStr(<<"no target channel/chat">>), outbound)
           ELSE DirectAfterTool(PyStr(<<"message sent to ">> \o
                                      JoinKey(to.channel, to.chat_id)),
                                publish_outbound(outbound,
                                    OutboundMessage(to.channel, to.chat_id,
                                                    Arg(args, "content"))))
    /\ UNCHANGED <<bw, stops, mbVars, regVars, inbound, busVars, subVars, runVars, message_ctx,
                   spawn_ctx>>

\* SpawnTool.execute in the caller's turn
DirectToolSpawn(task_id) ==
    /\ direct.pc = "tool"
    /\ Invoked(tools, Head(direct.pending))
    /\ Head(direct.pending).name = "spawn"
    /\ LET args == Head(direct.pending).arguments
       IN  /\ spawn(task_id, Arg(args, "task"), Arg(args, "label"),
                    [channel |-> spawn_ctx.channel,
                     chat_id |-> spawn_ctx.chat_id])
           /\ DirectAfterTool(SpawnAck(DisplayLabel(Arg(args, "label"),
                                                    Arg(args, "task")),
                                       task_id),
                              outbound)
    /\ UNCHANGED <<bw, stops, mbVars, regVars, inbound, busVars, runVars, message_ctx, spawn_ctx>>

----------------------------------------------------------------------------
(* Specifications *)

MaxRegistered == 2
MaxOutbound == 2
MaxSubscribers == 2

Callbacks == {"cb1", "cb2", "cb3"}
OutboundChoices ==
    { OutboundMessage(TG, Chat42, PyStr(<<"hello">>)),
      OutboundMessage(CLI, Direct, PyStr(<<"hello">>)) }

QueueInit ==
    /\ inbound = <<>>
    /\ outbound = <<>>

\* The registry on its own: register, unregister and execute in any order
Catalog ==
    {ListDirTool, ProbeTool, ProbeTool2, WebSearchTool, ListRootTool, NestedTool}
ExecNames == {"list_dir", "probe", "web_search", "bare", "nope"}
ParamChoices ==
    { <<>>,
      << <<"path", PyStr(<<".">>)>> >>,
      << <<"path", PyInt(3)>> >>,
      << <<"n", PyInt(2)>> >>,
      << <<"count", PyInt(0)>> >>,
      << <<"query", PyStr(<<"tla">>)>>, <<"count", PyInt(0)>> >> }
Outcomes ==
    { Return(PyStr(<<"ok">>)), Return(PyInt(42)), Raise(<<"boom">>) }

\* ToolRegistry.__init__
InitRegistry ==
    /\ tools = <<>>
    /\ lastExec = NoExec
    /\ lastCheck = NoValidate
    /\ lastReg = NoReg
    /\ QueueInit
    /\ BusInit
    /\ AgentInit

NextRegistry ==
    \/ \E t \in Catalog : Len(tools) < MaxRegistered /\ Register(t)
    \/ \E n \in ExecNames : Unregister(n)
    \/ \E n \in ExecNames, p \in ParamChoices, o \in Outcomes : Execute(n, p, o)

SpecRegistry == InitRegistry /\ [][NextRegistry]_vars

----------------------------------------------------------------------------
(* The validator on its own: validate_params applied to params maps *)

Absent == [type |-> "absent", v |-> <<>>]
Entry(k, x) == IF x.type = "absent" THEN <<>> ELSE << <<k, x>> >>

NameValues ==
    { Absent, PyStr(<<>>), PyStr(<<"a", "b">>), PyStr(<<"a", "b", "c", "d">>),
      PyInt(3) }
OptsValues ==
    { Absent,
      PyDict(<<>>),
      PyDict(<< <<"depth", PyInt(1)>> >>),
      PyDict(<< <<"depth", PyInt(5)>> >>),
      PyDict(<< <<"depth", PyBool(TRUE)>> >>),
      PyDict(<< <<"depth", PyStr(<<"x">>)>> >>),
      PyDict(<< <<"mode", PyStr(<<"c">>)>> >>),
      PyDict(<< <<"depth", PyInt(1)>>, <<"mode", PyStr(<<"a">>)>> >>),
      PyDict(<< <<"depth", PyInt(1)>>, <<"mode", PyInt(3)>> >>),
      PyStr(<<"x">>) }
TagsValues ==
    { Absent,
      PyList(<<>>),
      PyList(<<PyDict(<<>>)>>),
      PyList(<<PyDict(<< <<"k", PyStr(<<"v">>)>> >>), PyDict(<<>>)>>),
      PyList(<<PyInt(3)>>) }

NestedParams ==
    { Entry("name", n) \o Entry("opts", o) \o Entry("tags", t) :
        n \in NameValues, o \in OptsValues, t \in TagsValues }

FetchParams ==
    { << <<"url", PyStr(<<"http://x">>)>> >>,
      << <<"url", PyStr(<<"http://x">>)>>, <<"extractMode", PyStr(<<"text">>)>> >>,
      << <<"url", PyStr(<<"http://x">>)>>, <<"extractMode", PyStr(<<"html">>)>> >>,
      << <<"url", PyStr(<<"http://x">>)>>, <<"extractMode", PyInt(3)>> >>,
      << <<"maxChars", PyInt(50)>> >> }

ValidateInputs ==
    ({NestedTool} \X NestedParams)
    \cup ({WebFetchTool} \X FetchParams)
    \cup ({ListRootTool} \X {<<>>})

NextValidate == \E in \in ValidateInputs : ValidateParams(in[1], in[2])

SpecValidate == InitRegistry /\ [][NextValidate]_vars

TotalSubscribers ==
    LET chans == DOMAIN subscribers
        RECURSIVE Sum(_)
        Sum(S) == IF S = {} THEN 0
                  ELSE LET c == CHOOSE c \in S : TRUE
                       IN  Len(subscribers[c]) + Sum(S \ {c})
    IN  Sum(chans)

InitBus ==
    /\ tools = DefaultTools
    /\ lastExec = NoExec
    /\ lastCheck = NoValidate
    /\ lastReg = NoReg
    /\ QueueInit
    /\ BusInit
    /\ AgentInit

NextBus ==
    \/ \E c \in {TG, CLI}, cb \in Callbacks :
          TotalSubscribers < MaxSubscribers /\ Subscribe(c, cb)
    \/ \E m \in OutboundChoices :
          Len(taken) + Len(outbound) < MaxOutbound /\ PublishOutbound(m)
    \/ DispatchStart
    \/ DispatchTimeout
    \/ DispatchTake
    \/ \E r \in BOOLEAN : DispatchCallback(r)
    \/ BusStop

SpecBus == InitBus /\ [][NextBus]_vars

----------------------------------------------------------------------------
(* The agent: channel adapters, the agent loop and its subagents *)

MaxInbound == 2
MaxSpawns == 1
MaxCalls == 2

InboundChoices ==
    { InboundMessage(TG, "user", Chat42, PyStr(<<"2+2?">>)),
      InboundMessage(CLI, "user", Direct, PyStr(<<"2+2?">>)) }

Call(name, args) == [name |-> name, arguments |-> args]
CallListDir == Call("list_dir", << <<"path", PyStr(<<".">>)>> >>)
CallSpawn == Call("spawn", << <<"task", PyStr(<<"d", "i", "g">>)>> >>)
CallMessage == Call("message", << <<"content", PyStr(<<"wait">>)>> >>)
CallUnknown == Call("nope", <<>>)

\* the tool calls of a response: the model numbers them
ToolCallLists(calls) ==
    UNION { { [i \in 1..n |-> [id |-> ToString(i)] @@ f[i]] :
              f \in [1..n -> calls] } : n \in 1..MaxCalls }

Responses(calls) ==
    { [content |-> PyStr(<<"answer">>), tool_calls |-> <<>>],
      [content |-> None, tool_calls |-> <<>>] }
    \cup { [content |-> None, tool_calls |-> l] : l \in ToolCallLists(calls) }

\* the model answers, or asks for one tool call
AnswerOrOneCall(calls) ==
    { [content |-> PyStr(<<"answer">>), tool_calls |-> <<>>] }
    \cup { [content |-> None, tool_calls |-> <<[id |-> "1"] @@ c>>] :
             c \in calls }

ToolOutcomes == { Return(PyStr(<<"ok">>)), Raise(<<"boom">>) }
ChatErrors == { <<"model down">> }

SpawnsIn(response) ==
    Cardinality({i \in 1..Len(response.tool_calls) :
                    response.tool_calls[i].name = "spawn"})

\* an announcement as _announce_result publishes it for origin tg:42
SystemInput ==
    InboundMessage(SYSTEM, "subagent", JoinKey(TG, Chat42),
                   AnnounceContent(<<"d", "i", "g">>, PyStr(<<"d", "i", "g">>),
                                   PyStr(<<"found">>), "ok"))

----------------------------------------------------------------------------
(* One turn of the agent loop: a message is waiting when run() starts *)

\* an announcement for an origin whose chat id holds a ':' itself
SystemInputNested ==
    InboundMessage(SYSTEM, "subagent", JoinKey(CLI, <<"4", ":", "2">>),
                   AnnounceContent(<<"d", "i", "g">>, PyStr(<<"d", "i", "g">>),
                                   PyStr(<<"found">>), "ok"))

\* a system message whose chat_id holds no ':'
SystemInputBare ==
    InboundMessage(SYSTEM, "subagent", Chat42,
                   AnnounceContent(<<"d", "i", "g">>, PyStr(<<"d", "i", "g">>),
                                   PyStr(<<"found">>), "ok"))

TurnInputs == InboundChoices \cup {SystemInput, SystemInputNested, SystemInputBare}
TurnCalls == {CallListDir, CallUnknown}

InitTurn ==
    /\ tools = DefaultTools
    /\ lastExec = NoExec
    /\ lastCheck = NoValidate
    /\ lastReg = NoReg
    /\ inbound \in {<<m>> : m \in TurnInputs}
    /\ outbound = <<>>
    /\ BusInit
    /\ AgentInit

NextTurn ==
    \/ LoopStart
    \/ LoopTimeout
    \/ LoopConsume
    \/ \E r \in Responses(TurnCalls) : ChatReturns(r)
    \/ \E e \in ChatErrors : ChatRaises(e)
    \/ ToolRefused
    \/ \E o \in ToolOutcomes : ToolCalled(o)

SpecTurn == InitTurn /\ [][NextTurn]_vars

----------------------------------------------------------------------------
(* The subagent manager on its own: spawn is called and the tasks run *)

Origins ==
    { [channel |-> TG, chat_id |-> Chat42], [channel |-> CLI, chat_id |-> Direct] }
SpawnRequests ==
    { [task |-> PyStr(<<"d", "i", "g">>), label |-> None],
      [task |-> PyStr(<<"d", "i", "g">>), label |-> PyStr(<<"dig">>)] }
SubagentCalls == {CallListDir}

NextSubagent ==
    \/ \E id \in TaskIds, rq \in SpawnRequests, o \in Origins :
          Len(tasks) < MaxSpawns /\ Spawn(id, rq.task, rq.label, o)
    \/ \E i \in 1..Len(tasks) : SubStart(i)
    \/ \E i \in 1..Len(tasks), r \in Responses(SubagentCalls) :
          SubChatReturns(i, r)
    \/ \E i \in 1..Len(tasks), e \in ChatErrors : SubChatRaises(i, e)
    \/ \E i \in 1..Len(tasks) : SubToolCalled(i, Return(PyStr(<<"ok">>)))

\* SubagentManager.__init__; no agent loop and so no registry of its own
InitSubagent ==
    /\ tools = <<>>
    /\ lastExec = NoExec
    /\ lastCheck = NoValidate
    /\ lastReg = NoReg
    /\ QueueInit
    /\ BusInit
    /\ AgentInit

SpecSubagent == InitSubagent /\ [][NextSubagent]_vars

----------------------------------------------------------------------------
(* The way of an origin: spawn is called for origins whose parts may hold a
   ':', the task ends, and the agent loop takes its announcement *)

\* origins with a ':' in the chat id and with a ':' in the channel
AnyOrigins ==
    Origins \cup { [channel |-> CLI, chat_id |-> <<"4", ":", "2">>],
                   [channel |-> <<"a", ":", "b">>, chat_id |-> Chat42] }

InitOrigin ==
    /\ tools = DefaultTools
    /\ lastExec = NoExec
    /\ lastCheck = NoValidate
    /\ lastReg = NoReg
    /\ QueueInit
    /\ BusInit
    /\ AgentInit

NextOrigin ==
    \/ \E id \in TaskIds, rq \in SpawnRequests, o \in AnyOrigins :
          Len(tasks) < MaxSpawns /\ Spawn(id, rq.task, rq.label, o)
    \/ \E i \in 1..Len(tasks) : SubStart(i)
    \/ \E i \in 1..Len(tasks), r \in AnswerOrOneCall(SubagentCalls) :
          SubChatReturns(i, r)
    \/ \E i \in 1..Len(tasks) : SubToolCalled(i, Return(PyStr(<<"ok">>)))
    \/ LoopStart
    \/ LoopTimeout
    \/ LoopConsume
    \/ ChatReturns([content |-> PyStr(<<"answer">>), tool_calls |-> <<>>])

SpecOrigin == InitOrigin /\ [][NextOrigin]_vars

----------------------------------------------------------------------------
(* One subagent and every tool call its model may ask for.  Each run of
   _run_subagent builds a registry of its own, so one task shows all of it. *)

SubagentToolCalls == {CallListDir, CallMessage, CallSpawn}

NextSubagentTools ==
    \/ \E id \in TaskIds :
          /\ tasks = <<>>
          /\ Spawn(id, PyStr(<<"d", "i", "g">>), None,
                   [channel |-> TG, chat_id |-> Chat42])
    \/ \E i \in 1..Len(tasks) : SubStart(i)
    \/ \E i \in 1..Len(tasks), r \in Responses(SubagentToolCalls) :
          SubChatReturns(i, r)
    \/ \E i \in 1..Len(tasks), e \in ChatErrors : SubChatRaises(i, e)
    \/ \E i \in 1..Len(tasks) : SubToolRefused(i)
    \/ \E i \in 1..Len(tasks) : SubToolCalled(i, Return(PyStr(<<"ok">>)))

SpecSubagentTools == InitSubagent /\ [][NextSubagentTools]_vars

----------------------------------------------------------------------------
(* Stopping: the agent loop and the dispatcher run side by side, two
   messages wait, the adapters have subscribed, and stop() of the loop and of
   the bus may be called at any moment *)

StopCalls == {CallListDir}

InitStop ==
    /\ tools = DefaultTools
    /\ lastExec = NoExec
    /\ lastCheck = NoValidate
    /\ lastReg = NoReg
    /\ inbound = <<InboundMessage(TG, "user", Chat42, PyStr(<<"2+2?">>)),
                   InboundMessage(CLI, "user", Direct, PyStr(<<"2+2?">>))>>
    /\ outbound = <<>>
    /\ subscribers = [c \in {TG, CLI} |-> IF c = TG THEN <<"cb1", "cb2">>
                                                     ELSE <<"cb3">>]
    /\ bus_running = FALSE
    /\ dpc = "created"
    /\ dmsg = NoOutbound
    /\ didx = 0
    /\ delivered = <<>>
    /\ taken = <<>>
    /\ AgentInit

\* the steps of AgentLoop.run once it was started
LoopSteps ==
    \/ LoopTimeout
    \/ LoopConsume
    \/ \E r \in Responses(StopCalls) : ChatReturns(r)
    \/ \E e \in ChatErrors : ChatRaises(e)
    \/ ToolCalled(Return(PyStr(<<"ok">>)))

\* the steps of MessageBus.dispatch_outbound once it was started
DispatchSteps ==
    \/ DispatchTimeout
    \/ DispatchTake
    \/ DispatchCallback(FALSE)

NextStop ==
    \/ LoopStart
    \/ LoopStop
    \/ LoopSteps
    \/ DispatchStart
    \/ BusStop
    \/ DispatchSteps

\* The event loop runs a coroutine that can go on; a bounded wait ends, and
\* the model, the tools and the callbacks answer or fail in the end.
SpecStop ==
    /\ InitStop
    /\ [][NextStop]_vars
    /\ WF_vars(LoopSteps)
    /\ WF_vars(DispatchSteps)

\* The same, for loops whose tasks have been created: the event loop also
\* runs the first step of run() and of dispatch_outbound.
SpecScheduled ==
    /\ InitStop
    /\ [][NextStop]_vars
    /\ WF_vars(LoopStart)
    /\ WF_vars(LoopSteps)
    /\ WF_vars(DispatchStart)
    /\ WF_vars(DispatchSteps)

----------------------------------------------------------------------------
(* Failures while the loops run: the model call fails, a tool raises, a
   subscriber callback raises, and stop() of the loop and of the bus may be
   called at any moment *)

NextFaults ==
    \/ LoopStart
    \/ LoopStop
    \/ LoopTimeout
    \/ LoopConsume
    \/ \E r \in AnswerOrOneCall(StopCalls) : ChatReturns(r)
    \/ \E e \in ChatErrors : ChatRaises(e)
    \/ \E o \in ToolOutcomes : ToolCalled(o)
    \/ DispatchStart
    \/ BusStop
    \/ DispatchTimeout
    \/ DispatchTake
    \/ \E raised \in BOOLEAN : DispatchCallback(raised)

SpecFaults == InitStop /\ [][NextFaults]_vars

----------------------------------------------------------------------------
(* Replies and tool-sent messages on their way to the subscribers: two
   messages wait, the model answers, asks for the message tool or fails, and
   the dispatcher passes what is published to the subscribed callbacks *)

ReplyCalls == {CallMessage}

\* the steps of AgentLoop.run once it was started
ReplyLoopSteps ==
    \/ LoopTimeout
    \/ LoopConsume
    \/ \E r \in AnswerOrOneCall(ReplyCalls) : ChatReturns(r)
    \/ \E e \in ChatErrors : ChatRaises(e)
    \/ ToolMessage

NextReplies ==
    \/ LoopStart
    \/ ReplyLoopSteps
    \/ DispatchStart
    \/ DispatchSteps

\* The model call returns or fails in the end, and so does every callback.
SpecReplies ==
    /\ InitStop
    /\ [][NextReplies]_vars
    /\ WF_vars(LoopStart)
    /\ WF_vars(ReplyLoopSteps)
    /\ WF_vars(DispatchStart)
    /\ WF_vars(DispatchSteps)

----------------------------------------------------------------------------
(* The agent: channel adapters, the agent loop and its subagents *)

MainCalls == {CallSpawn, CallUnknown}
SubCalls == {CallListDir}

Init ==
    /\ tools = DefaultTools
    /\ lastExec = NoExec
    /\ lastCheck = NoValidate
    /\ lastReg = NoReg
    /\ QueueInit
    /\ BusInit
    /\ AgentInit

Next ==
    \/ \E m \in InboundChoices : published < MaxInbound /\ PublishInbound(m)
    \/ LoopStart
    \/ LoopTimeout
    \/ LoopConsume
    \/ \E r \in Responses(MainCalls) :
          Len(tasks) + SpawnsIn(r) <= MaxSpawns /\ ChatReturns(r)
    \/ \E e \in ChatErrors : ChatRaises(e)
    \/ ToolRefused
    \/ \E id \in TaskIds : ToolSpawn(id)
    \/ \E i \in 1..Len(tasks) : SubStart(i)
    \/ \E i \in 1..Len(tasks), r \in Responses(SubCalls) : SubChatReturns(i, r)
    \/ \E i \in 1..Len(tasks), e \in ChatErrors : SubChatRaises(i, e)
    \/ \E i \in 1..Len(tasks), o \in ToolOutcomes : SubToolCalled(i, o)

Spec == Init /\ [][Next]_vars

----------------------------------------------------------------------------
(* Two entries into the agent: run() takes a message from the bus while a
   caller's task awaits process_direct.  Both tasks share the event loop, so
   each may run whenever the other waits for the model or for a tool. *)

MaxDirect == 1

RoutedCalls == {CallMessage, CallSpawn}
DirectContents == { PyStr(<<"hi">>) }

\* spawn calls the model has asked for that have not run yet
SpawnsPending ==
    Cardinality({i \in 1..Len(pending) : pending[i].name = "spawn"})
    + Cardinality({i \in 1..Len(direct.pending) :
                      direct.pending[i].name = "spawn"})
SpawnAllowed(r) == Len(tasks) + SpawnsPending + SpawnsIn(r) <= MaxSpawns

InitDirect ==
    /\ tools = DefaultTools
    /\ lastExec = NoExec
    /\ lastCheck = NoValidate
    /\ lastReg = NoReg
    /\ inbound \in {<<m>> : m \in InboundChoices}
    /\ outbound = <<>>
    /\ BusInit
    /\ AgentInit

\* The message tool and the spawn tool do not wait for anything (the queues
\* are unbounded, create_task returns at once), so a task that got a response
\* runs its tool calls before any other task runs: the tasks interleave at
\* the model calls and at the wait of run() only.
Yielded == lpc # "tool" /\ direct.pc # "tool"

NextDirect ==
    \/ Yielded /\ LoopStart
    \/ Yielded /\ LoopTimeout
    \/ Yielded /\ LoopConsume
    \/ \E r \in AnswerOrOneCall(RoutedCalls) :
          Yielded /\ SpawnAllowed(r) /\ ChatReturns(r)
    \/ \E e \in ChatErrors : Yielded /\ ChatRaises(e)
    \/ ToolMessage
    \/ \E id \in TaskIds : ToolSpawn(id)
    \/ \E c \in DirectContents :
          Yielded /\ direct.started < MaxDirect /\ DirectCall(c)
    \/ \E r \in AnswerOrOneCall(RoutedCalls) :
          Yielded /\ SpawnAllowed(r) /\ DirectChatReturns(r)
    \/ \E e \in ChatErrors : Yielded /\ DirectChatRaises(e)
    \/ DirectToolMessage
    \/ \E id \in TaskIds : DirectToolSpawn(id)

SpecDirect == InitDirect /\ [][NextDirect]_vars

----------------------------------------------------------------------------
(* Several background tasks at a time.  uuid4 is random and spawn keeps its
   first 8 hex digits, so the id of a new task is any id, one in use too. *)

MaxLive == 2

NextLive ==
    \/ \E id \in TaskIds :
          /\ Len(tasks) < MaxLive
          /\ Spawn(id, PyStr(<<"d", "i", "g">>), None,
                   [channel |-> TG, chat_id |-> Chat42])
    \/ \E i \in 1..Len(tasks) : SubStart(i)
    \/ \E i \in 1..Len(tasks), r \in AnswerOrOneCall(SubagentCalls) :
          SubChatReturns(i, r)
    \/ \E i \in 1..Len(tasks), e \in ChatErrors : SubChatRaises(i, e)
    \/ \E i \in 1..Len(tasks) : SubToolCalled(i, Return(PyStr(<<"ok">>)))

SpecLive == InitSubagent /\ [][NextLive]_vars

----------------------------------------------------------------------------
(* The group chat: messages of users and of bots wait on the bus when
   MultiBotManager.run starts; every model call of a bot may answer with a
   text, with nothing, with a tool call, or fail *)

MaxGroup == 2

Hi == PyStr(<<"h", "i">>)
Yo == PyStr(<<"y", "o">>)
GroupInputs ==
    { GroupMessage("u1", "user", Hi), GroupMessage("u1", "user", Yo),
      GroupMessage("A", "bot", Hi) }

RECURSIVE SeqsOf(_, _)
SeqsOf(S, n) ==
    IF n = 0 THEN {<<>>}
    ELSE {Append(q, x) : q \in SeqsOf(S, n - 1), x \in S}

BotResponses ==
    { [content |-> PyStr(<<"o", "k">>), tool_calls |-> <<>>],
      [content |-> PyStr(NamePrefix("A") \o <<"ok">>), tool_calls |-> <<>>],
      [content |-> PyStr(<<>>), tool_calls |-> <<>>],
      [content |-> None, tool_calls |-> <<>>],
      [content |-> None, tool_calls |-> <<[id |-> "1"] @@ CallListDir>>] }

InitMultiBot ==
    /\ tools = <<>>
    /\ lastExec = NoExec
    /\ lastCheck = NoValidate
    /\ lastReg = NoReg
    /\ inbound \in SeqsOf(GroupInputs, MaxGroup)
    /\ outbound = <<>>
    /\ BusInit
    /\ AgentInit

NextMultiBot ==
    \/ MbStart
    \/ MbTimeout
    \/ MbSkipBotMessage
    \/ MbAccept
    \/ \E b \in BotIds, r \in BotResponses : BotChatReturns(b, r)
    \/ \E b \in BotIds, e \in ChatErrors : BotChatRaises(b, e)
    \/ MbPublish

SpecMultiBot == InitMultiBot /\ [][NextMultiBot]_vars

----------------------------------------------------------------------------
(* The reply counts of the bots: user messages on few topics wait on the bus
   and every model call answers with a text or with nothing *)

MaxTopic == 3

TopicInputs == { GroupMessage("u1", "user", Hi), GroupMessage("u1", "user", Yo) }

TopicResponses ==
    { [content |-> PyStr(<<"o", "k">>), tool_calls |-> <<>>],
      [content |-> None, tool_calls |-> <<>>] }

InitTopic ==
    /\ tools = <<>>
    /\ lastExec = NoExec
    /\ lastCheck = NoValidate
    /\ lastReg = NoReg
    /\ inbound \in SeqsOf(TopicInputs, MaxTopic)
    /\ outbound = <<>>
    /\ BusInit
    /\ AgentInit

NextTopic ==
    \/ MbStart
    \/ MbTimeout
    \/ MbAccept
    \/ \E b \in BotIds, r \in TopicResponses : BotChatReturns(b, r)
    \/ MbPublish

SpecTopic == InitTopic /\ [][NextTopic]_vars

----------------------------------------------------------------------------
(* A bot worker in a group chat: a human posts messages and commands,
   another bot posts, and the coroutines of the worker thread run between
   the calls of the handler. *)

MaxHuman == 2
MaxOther == 2

HumanCommands == {"text", "mute", "unmute"}

PostsOf(by) == Cardinality({k \in DOMAIN bw.chat : bw.chat[k].by = by})

InitWorker ==
    /\ tools = <<>>
    /\ lastExec = NoExec
    /\ lastCheck = NoValidate
    /\ lastReg = NoReg
    /\ QueueInit
    /\ BusInit
    /\ AgentInit

WorkerSteps ==
    \E i \in DOMAIN bw.loops :
        \/ ReplyDelayEnds(i)
        \/ \E has_text \in BOOLEAN : ReplyLlmReturns(i, has_text)
        \/ ReplySent(i)
        \/ \E timed_out \in BOOLEAN : PollStarts(i, timed_out)
        \/ \E skips, timed_out \in BOOLEAN : PollWakes(i, skips, timed_out)
        \/ DiscussionDelayEnds(i)
        \/ \E has_text \in BOOLEAN : DiscussionLlmReturns(i, has_text)
        \/ \E timed_out \in BOOLEAN : DiscussionSent(i, timed_out)

NextWorker ==
    \/ \E cmd \in HumanCommands : PostsOf("human") < MaxHuman /\ HumanPosts(cmd)
    \/ PostsOf("other") < MaxOther /\ OtherBotPosts
    \/ OnMessage
    \/ WorkerSteps

SpecWorker == InitWorker /\ [][NextWorker]_vars

----------------------------------------------------------------------------
(* Properties of the registry, checked under SpecRegistry *)

\* C1: execute of a name that is not registered returns an error string that
\* contains the name, lets no exception out and calls no capability.
C1_UnknownNameIsReported ==
    (lastExec.called /\ ~lastExec.registered) =>
        /\ IsStr(lastExec.result)
        /\ lastExec.name \in Range(lastExec.result.v)
        /\ ~lastExec.raises
        /\ ~lastExec.invoked

\* an unknown name was executed on a registry that holds other capabilities
C1_Witness ==
    /\ lastExec.called
    /\ ~lastExec.registered
    /\ tools # <<>>
    /\ lastExec.result = NotFoundMsg(lastExec.name)

\* C2: execute of a registered capability returns a string, whatever the
\* native type of the value the capability's own execute returns.
C2_ResultIsAlwaysString ==
    (lastExec.called /\ lastExec.registered) => IsStr(lastExec.result)

----------------------------------------------------------------------------
(* Properties of one turn of the agent loop, checked under SpecTurn *)

RouteFallback(msg) == IF msg.channel = SYSTEM THEN FallbackSystem ELSE FallbackDirect

\* C3: a turn issues at most max_iterations model calls, and a turn whose
\* responses all carried tool calls ends with an ordinary reply that holds the
\* fixed fallback text of its route, not with an exception.
C3_IterationBudget ==
    /\ turn.calls <= max_iterations
    /\ last.calls <= max_iterations
    /\ last.allTools =>
          /\ last.kind = "reply"
          /\ last.calls = max_iterations
          /\ last.out.content = RouteFallback(last.msg)
          /\ last.out \in Range(outbound)

\* a system-routed turn used its whole budget on tool calls
C3_Witness ==
    /\ last.allTools
    /\ last.calls = max_iterations
    /\ last.msg.channel = SYSTEM
    /\ last.out.content = FallbackSystem

\* the tool-result turn the k-th call of the latest response got
ToolTurnOf(msgs, base, k) == msgs[base + 1 + k]

\* C5: a message of channel "system" whose chat_id is "c:i" works on the
\* session keyed "c:i" and its reply goes to channel c, chat i (the split is at
\* the first ':'), never to channel "system".
C5_SystemReplyGoesToOrigin ==
    /\ (cur.channel = SYSTEM /\ ":" \in Range(cur.chat_id)) =>
          cur.chat_id \in DOMAIN sessions
    /\ (last.kind = "reply" /\ last.msg.channel = SYSTEM
          /\ ":" \in Range(last.msg.chat_id)) =>
          /\ JoinKey(last.out.channel, last.out.chat_id) = last.msg.chat_id
          /\ ":" \notin Range(last.out.channel)
          /\ last.out.channel # SYSTEM
          /\ last.msg.chat_id \in DOMAIN sessions
          /\ Len(sessions[last.msg.chat_id]) = 2
          /\ sessions[last.msg.chat_id][2].content = last.out.content
          /\ DOMAIN sessions = {last.msg.chat_id}

\* the announcement for cli:4:2 was answered on channel cli, chat 4:2
C5_Witness ==
    /\ last.kind = "reply"
    /\ last.msg = SystemInputNested
    /\ last.out.channel = CLI
    /\ last.out.chat_id = <<"4", ":", "2">>
    /\ last.out \in Range(outbound)

\* C7: when the processing of a message raises, run() publishes an apology
\* addressed to the (channel, chat_id) a normal reply to that message would
\* use, and goes on with its loop.
C7_ApologyReachesUser ==
    last.kind = "apology" =>
        /\ last.out \in Range(outbound)
        /\ last.out.channel = Resolved(last.msg).channel
        /\ last.out.chat_id = Resolved(last.msg).chat_id
        /\ lpc = "wait"

\* C8: a tool call whose capability raises gets a tool-result turn whose
\* content is a string that describes the error; the calls after it are still
\* executed and the next model call is issued: the turn is not aborted.
C8_ToolErrorBecomesToolTurn ==
    /\ \A k \in turn.raisedIds :
          LET t == ToolTurnOf(messages, turn.base, k)
          IN  /\ t.role = "tool"
              /\ t.tool_call_id = turn.resp[k].id
              /\ IsStr(t.content)
              /\ turn.resp[k].name \in Range(t.content.v)
              /\ "boom" \in Range(t.content.v)
    /\ turn.raisedIds # {} =>
          /\ lpc \in {"tool", "chat"}
          /\ lpc = "tool" =>
                /\ pending # <<>>
                /\ pending = SubSeq(turn.resp, Len(turn.resp) - Len(pending) + 1,
                                    Len(turn.resp))
                /\ \A k \in turn.raisedIds : k <= Len(turn.resp) - Len(pending)
          /\ lpc = "chat" => Len(messages) = turn.base + 1 + Len(turn.resp)
    /\ (last.toolRaised /\ last.kind = "apology") => last.calls > 1

\* the first of two calls raised, the second was executed and the next model
\* call was issued
C8_Witness ==
    /\ lpc = "chat"
    /\ turn.raisedIds = {1}
    /\ Len(turn.resp) = 2
    /\ turn.calls = 2
    /\ ToolTurnOf(messages, turn.base, 1).content
          = PyStr(<<"Error executing ", "list_dir", ": ", "boom">>)
    /\ ToolTurnOf(messages, turn.base, 2).content = PyStr(<<"ok">>)

----------------------------------------------------------------------------
(* Properties of the dispatcher, checked under SpecBus *)

\* C9: a callback that raises stops neither the for loop over the subscribers
\* of the message nor the dispatcher: the next subscriber is called for the
\* same message, and after the last one the dispatcher waits for the next
\* message (it exits only when stop() was called).
C9_CallbackFailureIsIsolated ==
    /\ \A k \in 1..Len(delivered) :
          (delivered[k].raised /\ delivered[k].idx < delivered[k].of) =>
              IF k < Len(delivered)
              THEN /\ delivered[k + 1].n = delivered[k].n
                   /\ delivered[k + 1].idx = delivered[k].idx + 1
              ELSE /\ dpc = "callbacks"
                   /\ didx = delivered[k].idx + 1
                   /\ dmsg = taken[delivered[k].n]
    /\ (delivered # <<>> /\ delivered[Len(delivered)].raised
          /\ delivered[Len(delivered)].idx = delivered[Len(delivered)].of
          /\ Len(taken) = delivered[Len(delivered)].n) =>
              /\ dpc \in {"wait", "exit"}
              /\ dmsg = NoOutbound
    /\ dpc = "exit" => ~bus_running

\* the first subscriber raised on the first message; the second subscriber
\* got that message and both got the next one
C9_Witness ==
    /\ Len(delivered) = 4
    /\ delivered[1].raised
    /\ delivered[1].n = 1 /\ delivered[2].n = 1
    /\ delivered[3].n = 2 /\ delivered[4].n = 2
    /\ delivered[2].callback # delivered[1].callback

----------------------------------------------------------------------------
(* Properties of the agent with its subagents, checked under Spec *)

\* after a response with the calls resp, of which `done` are executed, the
\* list msgs holds one assistant turn with all the calls and then one tool
\* turn per executed call, in the order of the calls
TurnsInOrder(msgs, base, resp, done) ==
    /\ Len(msgs) = base + 1 + done
    /\ msgs[base + 1].role = "assistant"
    /\ Len(msgs[base + 1].tool_calls) = Len(resp)
    /\ \A k \in 1..Len(resp) :
          /\ msgs[base + 1].tool_calls[k].id = resp[k].id
          /\ msgs[base + 1].tool_calls[k].function.name = resp[k].name
    /\ \A k \in 1..done :
          /\ msgs[base + 1 + k].role = "tool"
          /\ msgs[base + 1 + k].tool_call_id = resp[k].id
          /\ msgs[base + 1 + k].name = resp[k].name
    /\ \A j \in 1..base : msgs[j].role \in {"system", "user", "assistant", "tool"}

\* C4: a response with N tool calls adds one assistant turn that records the N
\* calls and then N tool turns in the order of the calls, one call at a time,
\* all of them before the next model call, in the agent loop and in a
\* subagent.
C4_ToolTurnsInOrder ==
    /\ lpc = "tool" =>
          /\ pending # <<>>
          /\ TurnsInOrder(messages, turn.base, turn.resp,
                          Len(turn.resp) - Len(pending))
    /\ (lpc = "chat" /\ turn.resp # <<>>) =>
          TurnsInOrder(messages, turn.base, turn.resp, Len(turn.resp))
    /\ \A i \in 1..Len(tasks) :
          /\ tasks[i].pc = "tool" =>
                /\ tasks[i].pending # <<>>
                /\ TurnsInOrder(tasks[i].messages, tasks[i].base, tasks[i].resp,
                                Len(tasks[i].resp) - Len(tasks[i].pending))
          /\ (tasks[i].pc = "chat" /\ tasks[i].resp # <<>>) =>
                TurnsInOrder(tasks[i].messages, tasks[i].base, tasks[i].resp,
                             Len(tasks[i].resp))

\* the agent loop and a subagent each issued their second model call after a
\* response with two tool calls
C4_Witness ==
    /\ lpc = "chat" /\ Len(turn.resp) = 2
    /\ Len(messages) = turn.base + 3
    /\ \E i \in 1..Len(tasks) :
          /\ tasks[i].pc = "chat" /\ Len(tasks[i].resp) = 2
          /\ tasks[i].messages[Len(tasks[i].messages)].tool_call_id = "2"

\* how many inbound messages of channel "system" there have been: those
\* queued, the one in work, and those whose turn ended with a reply (their
\* user turn in a session) or with an apology (on the outbound queue)
SystemQueued == Cardinality({j \in 1..Len(inbound) : inbound[j].channel = SYSTEM})
SystemInWork == IF cur.channel = SYSTEM THEN 1 ELSE 0
SystemApologies ==
    Cardinality({j \in 1..Len(outbound) : outbound[j].channel = SYSTEM})
SystemLogged ==
    LET RECURSIVE Sum(_)
        Sum(S) == IF S = {} THEN 0
                  ELSE LET k == CHOOSE k \in S : TRUE
                       IN  Cardinality({j \in 1..Len(sessions[k]) :
                               /\ sessions[k][j].role = "user"
                               /\ sessions[k][j].content.v[1] = "[System: "})
                           + Sum(S \ {k})
    IN  Sum(DOMAIN sessions)
SystemPublished == SystemQueued + SystemInWork + SystemApologies + SystemLogged

Unfinished == {i \in 1..Len(tasks) : tasks[i].pc # "done"}

\* C6: spawn hands back its acknowledgement while the task has not run; a
\* task publishes nothing before it finishes and exactly one message of channel
\* "system" when it does, with chat_id "origin_channel:origin_chat_id".
C6_SpawnAnnouncesOnce ==
    /\ \A j \in 1..Len(messages) :
          (messages[j].role = "tool" /\ messages[j].name = "spawn"
             /\ messages[j].content.v[1] = "Subagent [") =>
              \E i \in 1..Len(tasks) :
                  messages[j].content = SpawnAck(tasks[i].label, tasks[i].task_id)
    /\ \A i \in 1..Len(tasks) :
          IF tasks[i].pc = "done"
          THEN /\ Len(tasks[i].announced) = 1
               /\ tasks[i].announced[1].msg.channel = SYSTEM
               /\ tasks[i].announced[1].msg.chat_id =
                     tasks[i].origin.channel \o <<":">> \o tasks[i].origin.chat_id
               /\ tasks[i].origin.channel \in {TG, CLI}
          ELSE tasks[i].announced = <<>>
    /\ SystemPublished = Len(tasks) - Cardinality(Unfinished)

\* a task spawned for tg:42 is still running while the loop has answered the
\* turn that spawned it and then a message of another chat
C6_Witness ==
    /\ \E i \in Unfinished : tasks[i].origin.channel = TG
    /\ JoinKey(TG, Chat42) \in DOMAIN sessions
    /\ last.kind = "reply"
    /\ last.msg.channel = CLI
    /\ SystemPublished = 0

----------------------------------------------------------------------------
(* Properties of the subagent manager, checked under SpecSubagent *)

----------------------------------------------------------------------------
(* Properties of validation in the registry, checked under SpecRegistry *)

\* the fragments of sub stand in seq from position p on
OccursAt(sub, seq, p) ==
    /\ p + Len(sub) - 1 <= Len(seq)
    /\ SubSeq(seq, p, p + Len(sub) - 1) = sub

\* each of the errors stands in text, in the order of the list
InOrderIn(errors, text) ==
    \E f \in [1..Len(errors) -> 1..Len(text)] :
        /\ \A j \in 1..Len(errors) : OccursAt(errors[j], text, f[j])
        /\ \A j \in 1..(Len(errors) - 1) : f[j] + Len(errors[j]) <= f[j + 1]

\* C13: when validate_params reports errors for the params of a registered
\* capability, execute returns one string that holds every reported error, in
\* order, and the capability is not called; when the root schema is not an
\* object, what validate_params reports is its ValueError, and execute again
\* returns one string that holds its text and calls nothing.
C13_InvalidParamsAreRefused ==
    (lastExec.called /\ lastExec.registered) =>
        /\ lastExec.checked.errors # <<>> =>
              /\ IsStr(lastExec.result)
              /\ lastExec.name \in Range(lastExec.result.v)
              /\ InOrderIn(lastExec.checked.errors, lastExec.result.v)
              /\ ~lastExec.invoked
              /\ ~lastExec.raises
        /\ lastExec.checked.raised =>
              /\ IsStr(lastExec.result)
              /\ lastExec.name \in Range(lastExec.result.v)
              /\ OccursAt(lastExec.checked.exc, lastExec.result.v,
                          Len(lastExec.result.v) - Len(lastExec.checked.exc) + 1)
              /\ ~lastExec.invoked
              /\ ~lastExec.raises

\* web_search called with a count of 0 and no query: two errors, one string
C13_Witness ==
    /\ lastExec.called
    /\ lastExec.registered
    /\ Len(lastExec.checked.errors) = 2
    /\ IsStr(lastExec.result)
    /\ ~lastExec.invoked

----------------------------------------------------------------------------
(* Properties of the dispatcher's routing, checked under SpecBus *)

\* the callbacks subscribed to a channel, in subscription order
Subscribed(channel) ==
    IF channel \in DOMAIN subscribers THEN subscribers[channel] ELSE <<>>

\* the callbacks the n-th taken message was passed to, in order
PassedTo(d, n) ==
    LET recs == SelectSeq(d, LAMBDA r : r.n = n)
    IN  [j \in 1..Len(recs) |-> recs[j].callback]

IsPrefix(a, b) == Len(a) <= Len(b) /\ SubSeq(b, 1, Len(a)) = a

\* one step of the bus: the queue is appended to or its head is taken, a
\* callback is invoked only for the message the dispatcher holds, and the
\* pass over a message ends only when every subscriber of its channel had it
DispatchStep ==
    /\ \/ outbound' = outbound /\ taken' = taken
       \/ /\ Len(outbound') = Len(outbound) + 1
          /\ SubSeq(outbound', 1, Len(outbound)) = outbound
          /\ taken' = taken
       \/ /\ outbound # <<>>
          /\ outbound' = Tail(outbound)
          /\ taken' = Append(taken, Head(outbound))
    /\ \/ delivered' = delivered
       \/ /\ Len(delivered') = Len(delivered) + 1
          /\ SubSeq(delivered', 1, Len(delivered)) = delivered
          /\ taken' = taken
          /\ delivered'[Len(delivered')].n = Len(taken)
    /\ (dpc = "callbacks" /\ dpc' # "callbacks") =>
          PassedTo(delivered', Len(taken)) = Subscribed(taken[Len(taken)].channel)
    /\ (Len(taken') > Len(taken) /\ dpc' # "callbacks") =>
          Subscribed(Head(outbound).channel) = <<>>

\* C17: a message the dispatcher takes is passed to every callback subscribed
\* to its channel, in subscription order, and to no other callback; messages
\* are taken in the order they were published.
C17_DispatchToSubscribersInOrder ==
    /\ [](\A n \in 1..Len(taken) :
             IsPrefix(PassedTo(delivered, n), Subscribed(taken[n].channel)))
    /\ [][DispatchStep]_vars

\* two messages of two channels were taken, each channel has its own
\* subscriber, and each message went to the subscriber of its channel only
C17_Witness ==
    /\ Len(taken) = 2
    /\ taken[1].channel # taken[2].channel
    /\ dpc = "wait"
    /\ \A n \in 1..2 :
          /\ Len(PassedTo(delivered, n)) = 1
          /\ PassedTo(delivered, n) = Subscribed(taken[n].channel)
    /\ Subscribed(TG) # Subscribed(CLI)

----------------------------------------------------------------------------
(* Properties of stop(), checked under SpecStop *)

\* stop() was called while the loop was under way, and the loop has not ended
LoopStopping == ~loop_running /\ lpc \in {"wait", "chat", "tool"}
BusStopping == ~bus_running /\ dpc \in {"wait", "callbacks"}

StopStep ==
    \* a turn goes on with its message until it ends, and it ends by
    \* publishing its reply (or its apology)
    /\ (lpc \in {"chat", "tool"} /\ cur' # NoInbound) =>
          cur' = cur /\ lpc' \in {"chat", "tool"}
    /\ (cur # NoInbound /\ cur' = NoInbound) =>
          /\ last'.msg = cur
          /\ outbound' = Append(outbound, last'.out)
    \* the loop ends only between two turns, its flag cleared
    /\ (lpc # "exit" /\ lpc' = "exit") => ~loop_running /\ cur' = NoInbound
    \* once stopped it begins no further wait: the wait under way is the last
    /\ (LoopStopping /\ lpc' = "wait") =>
          lpc = "wait" /\ inbound' = inbound /\ cur' = cur
    \* the dispatcher: the pass over a message serves every subscriber, the
    \* loop ends only between two passes, and begins no further wait
    /\ (dpc = "callbacks" /\ dpc' # "callbacks") =>
          PassedTo(delivered', Len(taken)) = Subscribed(taken[Len(taken)].channel)
    /\ (dpc # "exit" /\ dpc' = "exit") => ~bus_running /\ dmsg' = NoOutbound
    /\ (BusStopping /\ dpc' = "wait") => dpc = "wait" /\ taken' = taken

\* C18: stop() is a flag, not an interrupt: after stop() during a turn the
\* turn runs on with its model and tool calls and publishes its reply, after
\* stop() during a pass of the dispatcher every subscriber is still served,
\* and each loop then ends at its next test of the flag, beginning no wait
\* after the one that was under way.
C18_StopIsCooperative ==
    /\ [][StopStep]_vars
    /\ LoopStopping ~> (lpc = "exit")
    /\ BusStopping ~> (dpc = "exit")

\* both flags are cleared while a turn is at a tool call and the dispatcher
\* is between two callbacks of a message
C18_Witness ==
    /\ LoopStopping
    /\ lpc = "tool"
    /\ BusStopping
    /\ dpc = "callbacks"
    /\ didx = 2

----------------------------------------------------------------------------
(* Properties of the final answer, checked under SpecTurn *)

\* C20: when a response of the model carries no tool calls, the turn ends
\* with that response, and the content of the outbound message is exactly the
\* content of the response.
C20_FinalResponseIsTheReply ==
    (last.kind = "reply" /\ ~last.allTools) =>
        /\ cur = NoInbound
        /\ last.calls <= max_iterations
        /\ last.out.content = last.final

----------------------------------------------------------------------------
(* Properties of the session logs, checked under Spec *)

\* the user turn and the assistant turn of a message answered with `out`
LoggedPair(msg, out) ==
    << [role |-> "user",
        content |-> IF msg.channel = SYSTEM
                    THEN PyStr(<<"[System: ", msg.sender_id, "] ">>
                               \o msg.content.v)
                    ELSE msg.content],
       [role |-> "assistant", content |-> out.content] >>

\* one step as the session logs see it: a turn that ends with its reply
\* appends its pair to the log of the chat the reply goes to and leaves the
\* other logs alone; any other step appends nothing (the first message of a
\* chat creates its empty log)
SessionStep ==
    IF cur # NoInbound /\ cur' = NoInbound /\ last'.kind = "reply"
    THEN LET key == JoinKey(last'.out.channel, last'.out.chat_id)
         IN  /\ last'.msg = cur
             /\ key \in DOMAIN sessions
             /\ DOMAIN sessions' = DOMAIN sessions
             /\ \A k \in DOMAIN sessions :
                   sessions'[k] = IF k = key
                                  THEN sessions[k] \o LoggedPair(cur, last'.out)
                                  ELSE sessions[k]
    ELSE /\ DOMAIN sessions \subseteq DOMAIN sessions'
         /\ \A k \in DOMAIN sessions : sessions'[k] = sessions[k]
         /\ \A k \in DOMAIN sessions' \ DOMAIN sessions : sessions'[k] = <<>>

\* C19: a message that is processed with success appends two turns to the
\* session of its resolved key, the user turn (with the "[System: ...]" mark
\* for a system-routed message) and then the assistant turn with the final
\* answer; nothing else is ever appended, so every log alternates user and
\* assistant turns and holds no tool-call and no tool-result turn.
C19_SessionGetsUserThenAssistant ==
    /\ [][SessionStep]_vars
    /\ [](\A k \in DOMAIN sessions : \A j \in 1..Len(sessions[k]) :
             /\ DOMAIN sessions[k][j] = {"role", "content"}
             /\ sessions[k][j].role = IF j % 2 = 1 THEN "user" ELSE "assistant")

\* the log of a chat holds the turn that spawned a subagent and, after it,
\* the turn of the subagent's announcement
C19_Witness ==
    \E k \in DOMAIN sessions :
        /\ Len(sessions[k]) = 4
        /\ sessions[k][1].content.v[1] # "[System: "
        /\ sessions[k][3].content.v[1] = "[System: "
        /\ sessions[k][3].content.v[2] = "subagent"

----------------------------------------------------------------------------
(* Properties of the inbound queue, checked under Spec *)

\* the inbound messages accounted for: waiting, in work, or answered
InboundAccounted ==
    Len(inbound) + (IF cur # NoInbound THEN 1 ELSE 0) + Len(outbound)

\* a step leaves the queue alone, or puts one message behind the waiting ones,
\* or hands the oldest waiting message to the idle agent loop
InboundStep ==
    \/ /\ inbound' = inbound
       /\ cur' \in {cur, NoInbound}
    \/ /\ Len(inbound') = Len(inbound) + 1
       /\ SubSeq(inbound', 1, Len(inbound)) = inbound
       /\ cur' = cur
    \/ /\ inbound # <<>>
       /\ inbound' = Tail(inbound)
       /\ cur = NoInbound
       /\ cur' = Head(inbound)

\* C16: the inbound queue is first-in first-out and every published message
\* is consumed once: each step appends one message at the tail (an adapter's
\* or a subagent's announcement), or hands the head to the agent loop, also
\* after waits that timed out; and the messages published so far are exactly
\* those waiting, in work or answered.
C16_InboundFifoExactlyOnce ==
    /\ [](published + Cardinality({i \in 1..Len(tasks) : tasks[i].pc = "done"})
            = InboundAccounted)
    /\ [][InboundStep]_vars

\* an adapter's message waits behind the announcement of a subagent while
\* the loop is still at work on the message that spawned it
C16_Witness ==
    /\ Len(inbound) = 2
    /\ IsSystem(inbound[1])
    /\ ~IsSystem(inbound[2])
    /\ cur # NoInbound
    /\ ~IsSystem(cur)

----------------------------------------------------------------------------
(* Properties of the validator, checked under SpecValidate *)

RECURSIVE Violations(_, _)
RECURSIVE PropViolations(_, _, _)
RECURSIVE ItemViolations(_, _, _)
RECURSIVE MissingKeys(_, _)
RECURSIVE PropMissingKeys(_, _, _)
RECURSIVE ItemMissingKeys(_, _, _)

\* What the schema language asks of a value, read constraint by constraint:
\* the number of constraints of schema, at any depth, that val violates.  A
\* constraint on numbers, strings, objects or lists counts for a value of
\* that kind only; enum counts for every value.
Violations(val, schema) ==
    LET t == SchemaType(schema)
        Has1(c) == IF c THEN 1 ELSE 0
        isNum == val.type \in {"int", "bool"}
    IN  Has1(t \in DOMAIN TYPE_MAP /\ val.type \notin TYPE_MAP[t])
        + Has1("enum" \in DOMAIN schema
               /\ \A j \in 1..Len(schema.enum) : ~PyEq(val, schema.enum[j]))
        + Has1(t \in {"integer", "number"} /\ isNum
               /\ "minimum" \in DOMAIN schema /\ NumOf(val) < schema.minimum)
        + Has1(t \in {"integer", "number"} /\ isNum
               /\ "maximum" \in DOMAIN schema /\ NumOf(val) > schema.maximum)
        + Has1(t = "string" /\ val.type = "str"
               /\ "minLength" \in DOMAIN schema /\ Len(val.v) < schema.minLength)
        + Has1(t = "string" /\ val.type = "str"
               /\ "maxLength" \in DOMAIN schema /\ Len(val.v) > schema.maxLength)
        + (IF t = "object" /\ val.type = "dict"
           THEN Cardinality(IF "required" \in DOMAIN schema
                            THEN Range(schema.required) \ Keys(val) ELSE {})
                + (IF "properties" \in DOMAIN schema
                   THEN PropViolations(val, schema.properties, 1) ELSE 0)
           ELSE 0)
        + (IF t = "array" /\ val.type = "list" /\ "items" \in DOMAIN schema
           THEN ItemViolations(val, schema.items, 1)
           ELSE 0)
PropViolations(val, props, i) ==
    IF i > Len(val.v) THEN 0
    ELSE (IF val.v[i][1] \in DOMAIN props
          THEN Violations(val.v[i][2], props[val.v[i][1]]) ELSE 0)
         + PropViolations(val, props, i + 1)
ItemViolations(val, items, i) ==
    IF i > Len(val.v) THEN 0
    ELSE Violations(val.v[i], items) + ItemViolations(val, items, i + 1)

\* the required keys that val or an object nested in it lacks
MissingKeys(val, schema) ==
    LET t == SchemaType(schema)
    IN  IF t = "object" /\ val.type = "dict"
        THEN (IF "required" \in DOMAIN schema
              THEN Range(schema.required) \ Keys(val) ELSE {})
             \cup (IF "properties" \in DOMAIN schema
                   THEN PropMissingKeys(val, schema.properties, 1) ELSE {})
        ELSE IF t = "array" /\ val.type = "list" /\ "items" \in DOMAIN schema
        THEN ItemMissingKeys(val, schema.items, 1)
        ELSE {}
PropMissingKeys(val, props, i) ==
    IF i > Len(val.v) THEN {}
    ELSE (IF val.v[i][1] \in DOMAIN props
          THEN MissingKeys(val.v[i][2], props[val.v[i][1]]) ELSE {})
         \cup PropMissingKeys(val, props, i + 1)
ItemMissingKeys(val, items, i) ==
    IF i > Len(val.v) THEN {}
    ELSE MissingKeys(val.v[i], items) \cup ItemMissingKeys(val, items, i + 1)

Checked == lastCheck.done /\ ~lastCheck.raised
CheckedValue == PyDict(lastCheck.params)

\* C14: validate_params returns the empty list for a params map that
\* satisfies the schema, and for a params map that lacks a required key, at
\* the root or in a nested object, the list has an entry "missing required
\* ...<key>" that names the key.
C14_ValidAcceptedMissingNamed ==
    Checked =>
        /\ Violations(CheckedValue, lastCheck.schema) = 0
              => lastCheck.errors = <<>>
        /\ \A k \in MissingKeys(CheckedValue, lastCheck.schema) :
              \E j \in 1..Len(lastCheck.errors) :
                 /\ lastCheck.errors[j][1] = "missing required "
                 /\ lastCheck.errors[j][Len(lastCheck.errors[j])] = k

\* the key depth of the nested object opts and the key name of the root are
\* both missing, and both are named
C14_Witness ==
    /\ Checked
    /\ {"name", "depth"} \subseteq MissingKeys(CheckedValue, lastCheck.schema)
    /\ Len(lastCheck.errors) >= 2

\* C15: validate_params does not fail fast: every violated constraint has an
\* entry of its own in the returned list.
C15_EveryViolationReported ==
    Checked => Len(lastCheck.errors) = Violations(CheckedValue, lastCheck.schema)

----------------------------------------------------------------------------
(* Properties of one subagent's tools, checked under SpecSubagentTools *)

\* the tool-result turns a task holds for calls of the given name
SubToolTurns(i, name) ==
    {k \in 1..Len(tasks[i].messages) :
        /\ tasks[i].messages[k].role = "tool"
        /\ tasks[i].messages[k].name = name}

\* C11: the registry of a subagent holds no "message" and no "spawn"
\* capability: a call of either name by the subagent's model is answered with
\* the not-found error string, no outbound message is published by a subagent
\* and the tasks (all and live) are those spawn() was called for from outside.
C11_SubagentCannotMessageOrSpawn ==
    /\ \A i \in 1..Len(tasks) : \A name \in {"message", "spawn"} :
          \A k \in SubToolTurns(i, name) :
             /\ IsStr(tasks[i].messages[k].content)
             /\ tasks[i].messages[k].content.v =
                   <<"Error: Tool '", name, "' not found">>
    /\ outbound = <<>>
    /\ Len(tasks) <= 1
    /\ DOMAIN running_tasks \subseteq {tasks[i].task_id : i \in 1..Len(tasks)}

\* a task that asked for message and for spawn and got both answers
C11_Witness ==
    \E i \in 1..Len(tasks) :
        /\ SubToolTurns(i, "message") # {}
        /\ SubToolTurns(i, "spawn") # {}
        /\ tasks[i].task_id \in DOMAIN running_tasks

----------------------------------------------------------------------------
(* Properties of a failing subagent, checked under SpecSubagent *)

\* C12: when the model call of a subagent raises, the background task still
\* ends: one announcement is published for it, which says "failed" and holds
\* the text of the exception, and none that says it completed successfully;
\* the inbound queue holds one announcement for each task that ended.
C12_SubagentFailureIsAnnounced ==
    /\ Len(inbound) = Cardinality({i \in 1..Len(tasks) : tasks[i].pc = "done"})
    /\ \A i \in 1..Len(tasks) :
          tasks[i].failed # <<>> =>
             /\ tasks[i].pc = "done"
             /\ Len(tasks[i].announced) = 1
             /\ LET a == tasks[i].announced[1].msg
                IN  /\ a \in Range(inbound)
                    /\ a.sender_id = "subagent"
                    /\ "failed" \in Range(a.content.v)
                    /\ "completed successfully" \notin Range(a.content.v)
                    /\ "Error: " \in Range(a.content.v)
                    /\ Range(tasks[i].failed) \subseteq Range(a.content.v)

\* a task whose second model call, after a round of tool calls, raised
C12_Witness ==
    \E i \in 1..Len(tasks) :
        /\ tasks[i].failed # <<>>
        /\ tasks[i].calls = 2
        /\ inbound # <<>>

----------------------------------------------------------------------------
(* Model calls and tool-result turns of one message, checked under SpecTurn *)

\* the responses with tool calls a message list records, the tool calls they
\* carried, and the tool-result turns that were appended
IsToolRound(m) == m.role = "assistant" /\ "tool_calls" \in DOMAIN m
ToolRounds(msgs) == Cardinality({j \in 1..Len(msgs) : IsToolRound(msgs[j])})
RECURSIVE CallsReturned(_, _)
CallsReturned(msgs, j) ==
    IF j > Len(msgs) THEN 0
    ELSE (IF IsToolRound(msgs[j]) THEN Len(msgs[j].tool_calls) ELSE 0)
         + CallsReturned(msgs, j + 1)
ToolTurns(msgs) == Cardinality({j \in 1..Len(msgs) : msgs[j].role = "tool"})

\* while a message is processed the counts agree at every model call and
\* between two tool calls
CallsAndTurnsAgree ==
    /\ lpc = "chat" =>
          /\ turn.calls = ToolRounds(messages) + 1
          /\ ToolTurns(messages) = CallsReturned(messages, 1)
    /\ lpc = "tool" =>
          /\ turn.calls = ToolRounds(messages)
          /\ ToolTurns(messages) = CallsReturned(messages, 1) - Len(pending)

\* the step in which a response without tool calls ends the processing
AnswerStep ==
    (lpc = "chat" /\ lpc' # "chat" /\ last'.kind = "reply") =>
        /\ last'.calls = ToolRounds(messages) + 1
        /\ last'.calls <= max_iterations
        /\ ToolTurns(messages) = CallsReturned(messages, 1)

\* C21: when the first k responses for a message carry tool calls and response
\* k+1 carries none, the processing has made exactly k+1 model calls and its
\* message list holds exactly one tool-result turn per tool call the model
\* returned.
C21_ModelCallsAndToolTurns ==
    /\ []CallsAndTurnsAgree
    /\ [][AnswerStep]_vars

\* one response asked for list_dir, its result was appended, and the second
\* response ended the processing: two model calls
C21_Witness ==
    /\ last.kind = "reply"
    /\ ~last.allTools
    /\ last.calls = 2
    /\ last.final = PyStr(<<"answer">>)

----------------------------------------------------------------------------
(* Routing state of the message and spawn tools, checked under SpecDirect *)

Target(msg) == [channel |-> Resolved(msg).channel, chat_id |-> Resolved(msg).chat_id]

\* the tool call a turn executes next finds, in the tool it calls, the target
\* of the message the turn processes
RoutedFor(msg, tc) ==
    /\ tc.name = "message" => message_ctx = Target(msg)
    /\ tc.name = "spawn" => spawn_ctx = Target(msg)

\* C22: whenever the message tool or the spawn tool executes during a turn,
\* the default routing target it holds is the resolved (channel, chat_id) of
\* the message that turn processes, for the turn of run() and for the turn of
\* process_direct, however the two tasks interleave.
C22_RoutingTargetOfOwnTurn ==
    /\ lpc = "tool" => RoutedFor(cur, Head(pending))
    /\ direct.pc = "tool" => RoutedFor(direct.msg, Head(direct.pending))

----------------------------------------------------------------------------
(* The live-task set of the subagent manager, checked under SpecLive *)

\* C23: spawn never registers a new task under the id of a task that still
\* runs, so every task that has not finished is in _running_tasks under its
\* own id and get_running_count is the number of unfinished tasks.
C23_LiveTasksAreTracked ==
    /\ \A i \in Unfinished :
          /\ tasks[i].task_id \in DOMAIN running_tasks
          /\ running_tasks[tasks[i].task_id] = i
    /\ \A i, j \in Unfinished : tasks[i].task_id = tasks[j].task_id => i = j
    /\ get_running_count = Cardinality(Unfinished)

----------------------------------------------------------------------------
(* The name -> capability mapping and its wire format, checked under
   SpecRegistry *)

Names(reg) == {reg[i].name : i \in 1..Len(reg)}
EntriesOf(defs, name) == {i \in 1..Len(defs) : defs[i].function.name = name}

\* one capability per name, and one wire-format entry per registered name
OnePerName ==
    /\ \A i, j \in 1..Len(tools) : tools[i].name = tools[j].name => i = j
    /\ Len(get_definitions(tools)) = Cardinality(Names(tools))
    /\ \A i \in 1..Len(get_definitions(tools)) :
          /\ get_definitions(tools)[i].type = "function"
          /\ get_definitions(tools)[i].function.name \in Names(tools)
    /\ \A n \in Names(tools) :
          /\ Cardinality(EntriesOf(get_definitions(tools), n)) = 1
          /\ \A i \in EntriesOf(get_definitions(tools), n) :
                get_definitions(tools)[i] = to_schema(ToolsGet(tools, n))
    /\ \A n \in ExecNames \ Names(tools) :
          EntriesOf(get_definitions(tools), n) = {}

\* the name of no other capability is touched
OthersKept(name) ==
    \A n \in (Names(tools) \cup Names(tools')) \ {name} :
        /\ Has(tools, n) /\ Has(tools', n)
        /\ ToolsGet(tools', n) = ToolsGet(tools, n)

\* the latest call of register put its capability under its name, the latest
\* call of unregister left nothing under the name
LatestCallHolds ==
    /\ lastReg.op = "register" =>
          Has(tools, lastReg.name) /\ ToolsGet(tools, lastReg.name) = lastReg.tool
    /\ lastReg.op = "unregister" => ~Has(tools, lastReg.name)

\* a step that changes the mapping is a call of register or unregister, and
\* it touches the name of that call only
RegistryStep ==
    tools' # tools =>
        /\ lastReg'.op \in {"register", "unregister"}
        /\ OthersKept(lastReg'.name)

\* C24: the registry holds at most one capability per name; register maps
\* the name to the capability just registered and unregister removes it,
\* other names untouched, so a name maps to the capability registered last
\* under it; get_definitions has exactly one wire-format entry per registered
\* name and none for any other name.
C24_OneCapabilityPerName ==
    /\ [](OnePerName /\ LatestCallHolds)
    /\ [][RegistryStep]_vars

\* the second version of probe was registered over the first: the name maps
\* to the second version and the wire format has the one entry for it
C24_Witness ==
    /\ lastReg.op = "register"
    /\ lastReg.tool = ProbeTool2
    /\ lastReg.prev = ProbeTool
    /\ tools = <<ProbeTool2>>
    /\ get_definitions(tools) = <<to_schema(ProbeTool2)>>

\* the descriptor read back from a wire-format entry
FromSchema(entry) ==
    [name |-> entry.function.name,
     description |-> entry.function.description,
     parameters |-> entry.function.parameters]

\* C25: name, description and parameters read back from to_schema of a
\* capability are the capability's own, nested objects and arrays included.
C25_SchemaRoundTrip ==
    \A i \in 1..Len(tools) :
        /\ FromSchema(to_schema(tools[i])) = tools[i]
        /\ FromSchema(get_definitions(tools)[i]) = tools[i]

\* a capability with a nested object and an array of objects was converted
C25_Witness ==
    \E i \in 1..Len(tools) :
        /\ tools[i] = NestedTool
        /\ get_definitions(tools)[i].function.parameters.properties.tags.items.required
              = <<"k">>
        /\ get_definitions(tools)[i].function.parameters.properties.opts.properties.depth.maximum
              = 2

----------------------------------------------------------------------------
(* Broadcasts of the multi-bot manager, checked under SpecMultiBot *)

\* a broadcast has begun, and it is over
Broadcast == mmsg # NoInbound
BroadcastOver == Broadcast /\ mpc \in {"wait", "exit"}

\* the bots with a reply, in configuration order
RECURSIVE Repliers(_)
Repliers(i) ==
    IF i > Len(Bots) THEN <<>>
    ELSE (IF responses[i].kind = "reply" THEN <<i>> ELSE <<>>) \o Repliers(i + 1)

\* every bot was asked once; the replies published so far are those of the
\* first repliers, one message each, in the order of the bots, to the chat of
\* the message; at the end every replier's reply is published
BroadcastReplies ==
    Broadcast =>
        /\ \A b \in BotIds : asked[b] = 1
        /\ StartsWith(Repliers(1), sent)
        /\ Len(sent) <= Len(outbound)
        /\ \A j \in 1..Len(sent) :
              outbound[Len(outbound) - Len(sent) + j] =
                  OutboundMessage(mmsg.channel, mmsg.chat_id,
                                  responses[sent[j]].content)
        /\ BroadcastOver => sent = Repliers(1)

\* C26: every bot is asked once per broadcast message; at most one outbound
\* message per bot is published, in the order of the bots, to the channel and
\* chat of the message; a bot that fails or returns None does not keep the
\* replies of the others from being published; and when no bot fails, there
\* are as many outbound messages as bots.
C26_BroadcastAsWritten ==
    /\ BroadcastReplies
    /\ (BroadcastOver /\ \A b \in BotIds : responses[b].why # "error")
          => Len(sent) = Len(Bots)

\* C26, amended: as above, with as many outbound messages as bots when every
\* bot returns a text, that is when none fails, none has reached the round
\* limit of the topic and none gets an answer without content.
C26_BroadcastReplies ==
    /\ BroadcastReplies
    /\ (BroadcastOver /\ \A b \in BotIds : responses[b].kind = "reply")
          => Len(sent) = Len(Bots)

\* the model call of the first bot failed and the second bot's reply is
\* published all the same
C26_Witness ==
    /\ BroadcastOver
    /\ responses[1] = NoReply("error")
    /\ responses[2].kind = "reply"
    /\ sent = <<2>>
    /\ outbound[Len(outbound)] =
          OutboundMessage(TG, Chat42, PyStr(NamePrefix("B") \o <<": ", "o", "k">>))

\* C27: every reply the manager publishes to the outbound queue starts with
\* the name prefix of the bot that gave it.
C27_ReplyStartsWithBotName ==
    Broadcast =>
        \A j \in 1..Len(sent) :
            StartsWith(outbound[Len(outbound) - Len(sent) + j].content.v,
                       NamePrefix(Bots[sent[j]]))

\* the log as it was when the message of this broadcast had been accepted
LogAtAccept == SubSeq(chat_log, 1, Len(chat_log) - Len(sent))

\* a bot that asked its model in this broadcast
AskedModel(b) == Broadcast /\ responses[b].why # "rounds"

\* C28: the shared group history is the latest max_history entries of the
\* log of accepted user messages and published replies; the context a bot is
\* given is that history as it was when the message was accepted, so it
\* holds the earlier messages and replies of that window and the message
\* itself, and no reply of another bot to the same message.
C28_HistoryIsLatestWindow ==
    /\ group_history = LastN(chat_log, max_history)
    /\ Len(group_history) <= max_history
    /\ \A b \in BotIds :
          AskedModel(b) =>
              /\ contexts[b] = LastN(LogAtAccept, max_history)
              /\ contexts[b][Len(contexts[b])] =
                    HistoryEntry("user", mmsg.content, mmsg.sender_id)

\* the second message: both bots were given the first message, both replies
\* to it and the second message; the replies to the second message then
\* pushed the first message out of the history
C28_Witness ==
    /\ BroadcastOver
    /\ Len(chat_log) = 6
    /\ sent = <<1, 2>>
    /\ \A b \in BotIds :
          /\ contexts[b] = SubSeq(chat_log, 1, 4)
          /\ contexts[b][1] = HistoryEntry("user", Hi, "u1")
          /\ contexts[b][2].role = "assistant"
          /\ contexts[b][3].role = "assistant"
          /\ contexts[b][4] = HistoryEntry("user", Yo, "u1")
    /\ group_history = SubSeq(chat_log, 3, 6)

----------------------------------------------------------------------------
(* What ends the loops, checked under SpecFaults *)

\* C29: run() and dispatch_outbound() have returned only if their stop() was
\* called after they began: _running is set when a loop begins and cleared by
\* stop() alone, and no failure of the model call, of a tool or of a
\* subscriber callback ends a loop whose flag is still set.
C29_OnlyStopEndsTheLoops ==
    /\ lpc = "exit" => ~loop_running
    /\ dpc = "exit" => ~bus_running

\* a model call has failed, a tool and a callback have raised, and both
\* loops wait for their next message
C29_Witness ==
    /\ last.kind = "apology"
    /\ last.toolRaised
    /\ \E i \in 1..Len(delivered) : delivered[i].raised
    /\ lpc = "wait" /\ loop_running
    /\ dpc = "wait" /\ bus_running

----------------------------------------------------------------------------
(* Turns in flight, checked under SpecDirect *)

\* a turn is in flight from the moment _process_message has loaded the
\* session until it has saved it
InFlight(pc) == pc \in {"chat", "tool"}

\* C30: the turn of run() and the turn of process_direct are never in flight
\* for the same session key at the same time.
C30_OneTurnPerSession ==
    ~ /\ InFlight(lpc)
      /\ InFlight(direct.pc)
      /\ ResolvedKey(cur) = session_key(direct.msg)

----------------------------------------------------------------------------
(* The exhausted iteration budget of both loops, checked under Spec *)

\* the latest turn of the main loop got tool calls from every model call
MainBudgetUsed == last.allTools

\* a step in which task i leaves its last round of tool calls and ends: the
\* while loop of _run_subagent found its budget used up
SubBudgetStep(i) ==
    /\ i \in 1..Len(tasks)
    /\ tasks[i].pc = "tool"
    /\ tasks'[i].pc = "done"

\* C31: a turn of the main loop whose model calls all asked for tools ends
\* after max_iterations calls with an ordinary reply that carries the fixed
\* fallback text, and the session of its key ends with the user turn and the
\* assistant turn of that reply; a subagent never makes more than
\* sub_max_iterations model calls, and one that ends out of its last round of
\* tool calls publishes one announcement that says it completed successfully
\* and carries the subagent's fixed fallback text.
C31_BudgetExhaustionIsNormalEnd ==
    /\ [](MainBudgetUsed =>
            /\ last.kind = "reply"
            /\ last.calls = max_iterations
            /\ last.out.content = RouteFallback(last.msg)
            /\ last.out \in Range(outbound)
            /\ last.key \in DOMAIN sessions
            /\ Len(sessions[last.key]) >= 2
            /\ LastN(sessions[last.key], 2) = LoggedPair(last.msg, last.out))
    /\ [](\A i \in 1..Len(tasks) : tasks[i].calls <= sub_max_iterations)
    /\ [][\A i \in 1..Len(tasks) : SubBudgetStep(i) =>
            /\ tasks'[i].calls = sub_max_iterations
            /\ tasks'[i].failed = <<>>
            /\ Len(tasks'[i].announced) = 1
            /\ tasks'[i].announced[1].status = "ok"
            /\ inbound' = Append(inbound, tasks'[i].announced[1].msg)
            /\ LET a == tasks'[i].announced[1].msg
               IN  /\ a.channel = SYSTEM
                   /\ "completed successfully" \in Range(a.content.v)
                   /\ "failed" \notin Range(a.content.v)
                   /\ Range(SubFallback.v) \subseteq Range(a.content.v)]_vars

\* a turn of the main loop has ended on its budget, and so has a subagent
C31_Witness ==
    /\ MainBudgetUsed
    /\ last.out.content = FallbackDirect
    /\ \E i \in 1..Len(tasks) :
          /\ tasks[i].pc = "done"
          /\ tasks[i].calls = sub_max_iterations
          /\ Len(tasks[i].announced) = 1
          /\ Range(SubFallback.v) \subseteq Range(tasks[i].announced[1].msg.content.v)

----------------------------------------------------------------------------
(* The system route without a separator, checked under SpecTurn *)

\* a message of channel "system" whose chat_id holds no ':'
Bare(msg) == msg.channel = SYSTEM /\ ":" \notin Range(msg.chat_id)

\* the pair the system route falls back to: channel "cli", the chat_id as given
DefaultPair(msg) == [channel |-> CLI, chat_id |-> msg.chat_id]

\* C32: a system message whose chat_id holds no ':' is processed like any
\* other: while its turn runs, the session keyed "cli:<chat_id>" exists and
\* the message tool and the spawn tool route to ("cli", chat_id); its reply is
\* addressed to ("cli", chat_id), is published, and is logged with the user
\* turn in the session of that key.
C32_SystemWithoutSeparator ==
    /\ Bare(cur) =>
          /\ lpc \in {"chat", "tool"}
          /\ JoinKey(CLI, cur.chat_id) \in DOMAIN sessions
          /\ message_ctx = DefaultPair(cur)
          /\ spawn_ctx = DefaultPair(cur)
    /\ (last.kind = "reply" /\ Bare(last.msg)) =>
          /\ last.out.channel = CLI
          /\ last.out.chat_id = last.msg.chat_id
          /\ last.out \in Range(outbound)
          /\ last.key = JoinKey(CLI, last.msg.chat_id)
          /\ DOMAIN sessions = {last.key}
          /\ sessions[last.key] = LoggedPair(last.msg, last.out)

\* the model's answer to the system message with chat_id "42" went to
\* channel cli, chat 42
C32_Witness ==
    /\ last.kind = "reply"
    /\ last.msg = SystemInputBare
    /\ last.final = PyStr(<<"answer">>)
    /\ last.out = OutboundMessage(CLI, Chat42, PyStr(<<"answer">>))
    /\ outbound = <<last.out>>

----------------------------------------------------------------------------
(* The replies of a bot per topic, checked under SpecTopic *)

\* the texts bot b has returned for the topic key
RepliesFor(b, key) == {i \in 1..Len(returned[b]) : returned[b][i] = key}

\* C33: no bot returns more than max_rounds_per_topic texts for one topic
\* key, whatever messages arrive and whatever the pruning of its reply-count
\* table removes.
C33_RepliesPerTopicBounded ==
    \A b \in BotIds : \A key \in Range(returned[b]) :
        Cardinality(RepliesFor(b, key)) <= max_rounds_per_topic

----------------------------------------------------------------------------
(* stop() before the loop has begun, checked under SpecScheduled *)

\* C35: whenever stop() of the agent loop has been called, before or after
\* run() executed its first step, run() ends in the end; and the same for
\* stop() of the bus and dispatch_outbound.
C35_EarlyStopIsNotLost ==
    /\ stops.loop ~> (lpc = "exit")
    /\ stops.bus ~> (dpc = "exit")

----------------------------------------------------------------------------
(* The session log of a failed turn, checked under Spec *)

\* one step as a failing turn sees the session logs: loading the session
\* appends nothing (a new key gets its empty log), a turn under way appends
\* nothing, and the step in which the turn fails leaves every log as it is
FailedTurnStep ==
    /\ (cur = NoInbound /\ cur' # NoInbound) =>
          /\ \A k \in DOMAIN sessions : sessions'[k] = sessions[k]
          /\ \A k \in DOMAIN sessions' \ DOMAIN sessions : sessions'[k] = <<>>
    /\ (cur # NoInbound /\ cur' = cur) => sessions' = sessions
    /\ (cur # NoInbound /\ cur' = NoInbound /\ last'.kind = "apology") =>
          /\ last'.msg = cur
          /\ sessions' = sessions

\* C36: when the processing of a message fails, the session log of its key
\* holds what it held when the message was taken from the bus: no user turn
\* and no assistant turn of the failed message is appended.
C36_FailedTurnLeavesSession == [][FailedTurnStep]_vars

\* a chat got a reply to its first message, and its second message failed:
\* the log holds the two turns of the first one
C36_Witness ==
    /\ last.kind = "apology"
    /\ last.key \in DOMAIN sessions
    /\ Len(sessions[last.key]) = 2
    /\ sessions[last.key][1].content = last.msg.content

----------------------------------------------------------------------------
(* One reply of the loop per message, checked under SpecReplies *)

\* the messages that wait on the bus when run() starts, in order
ReplyInputs ==
    <<InboundMessage(TG, "user", Chat42, PyStr(<<"2+2?">>)),
      InboundMessage(CLI, "user", Direct, PyStr(<<"2+2?">>))>>

\* every outbound message published so far, in publication order
AllPublished == taken \o outbound

\* an outbound message the message tool sent
ToolSent(m) == m.content = Arg(CallMessage.arguments, "content")

\* the outbound messages run() itself published
LoopPublished == SelectSeq(AllPublished, LAMBDA m : ~ToolSent(m))

Consumed == Len(ReplyInputs) - Len(inbound)
Finished == Consumed - (IF cur # NoInbound THEN 1 ELSE 0)

\* C37: run() has published one outbound message of its own, the final answer
\* or the apology, for each message whose turn has ended, addressed to the
\* chat of that message and none before the turn ended; messages the message
\* tool sent are not counted.  Every message taken from the bus gets that
\* outbound message in the end.
C37_OneReplyPerMessage ==
    /\ [](/\ Len(LoopPublished) = Finished
          /\ \A k \in 1..Len(LoopPublished) :
                /\ LoopPublished[k].channel = ReplyInputs[k].channel
                /\ LoopPublished[k].chat_id = ReplyInputs[k].chat_id)
    /\ \A k \in 1..Len(ReplyInputs) :
          (Consumed >= k) ~> (Len(LoopPublished) >= k)

\* the first message was answered after two sends of the message tool, the
\* second one failed: four outbound messages, two of them from run()
C37_Witness ==
    /\ Finished = 2
    /\ Len(AllPublished) = 4
    /\ Len(LoopPublished) = 2
    /\ last.kind = "apology"
    /\ ToolSent(AllPublished[1])
    /\ ToolSent(AllPublished[2])

----------------------------------------------------------------------------
(* Tool-sent messages and the final answer, checked under SpecReplies *)

\* the messages callback cb was called with, in the order of the calls
SeenBy(cb) ==
    LET recs == SelectSeq(delivered, LAMBDA r : r.callback = cb)
    IN  [j \in 1..Len(recs) |-> taken[recs[j].n]]

\* the messages of seq that are addressed to a channel, in order
OnChannel(seq, channel) == SelectSeq(seq, LAMBDA m : m.channel = channel)

\* in seq, no message the tool sent to a chat comes after the message with
\* which run() ended the turn of that chat
ToolSentFirst(seq) ==
    \A i, j \in 1..Len(seq) :
        (i < j /\ ~ToolSent(seq[i]) /\ ToolSent(seq[j])) =>
            JoinKey(seq[i].channel, seq[i].chat_id)
                # JoinKey(seq[j].channel, seq[j].chat_id)

\* C39: the messages a turn sends through the message tool are on the
\* outbound queue before the final answer of that turn, and every callback
\* subscribed to a channel is called with the messages of its channel in the
\* order they were published, the tool-sent ones before the final answer.
C39_ToolMessagesBeforeAnswer ==
    /\ ToolSentFirst(AllPublished)
    /\ \A c \in DOMAIN subscribers : \A i \in 1..Len(subscribers[c]) :
          /\ IsPrefix(SeenBy(subscribers[c][i]), OnChannel(AllPublished, c))
          /\ ToolSentFirst(SeenBy(subscribers[c][i]))

\* the second subscriber of channel tg was called with the message the tool
\* sent and then with the final answer of the same turn
C39_Witness ==
    /\ Len(SeenBy("cb2")) = 2
    /\ ToolSent(SeenBy("cb2")[1])
    /\ SeenBy("cb2")[2].content = PyStr(<<"answer">>)
    /\ SeenBy("cb2")[1].chat_id = SeenBy("cb2")[2].chat_id

----------------------------------------------------------------------------
(* The origin of an announcement, checked under SpecOrigin *)

\* the announcements task i has published
AnnouncedBy(i) == {tasks[i].announced[j].msg : j \in 1..Len(tasks[i].announced)}

\* C38: the chat_id of the announcement of a task, parsed as the system route
\* parses it, is the (channel, chat_id) spawn was given; the turn of the
\* announcement routes its tools to that pair and its reply is addressed to
\* it.
C38_OriginRoundTrip ==
    \A i \in 1..Len(tasks) : \A a \in AnnouncedBy(i) :
        /\ ParseOrigin(a.chat_id).channel = tasks[i].origin.channel
        /\ ParseOrigin(a.chat_id).chat_id = tasks[i].origin.chat_id
        /\ (cur = a) =>
              /\ message_ctx.channel = tasks[i].origin.channel
              /\ message_ctx.chat_id = tasks[i].origin.chat_id
        /\ (last.kind = "reply" /\ last.msg = a) =>
              /\ last.out.channel = tasks[i].origin.channel
              /\ last.out.chat_id = tasks[i].origin.chat_id

----------------------------------------------------------------------------
(* Properties of the bot worker, checked under SpecWorker *)

\* the worker is muted after its k-th handled event: a mute command has been
\* handled and no unmute command since
MutedAfter(k) ==
    \E j \in 1..k :
        /\ bw.log[j] = "mute"
        /\ \A m \in (j + 1)..k : bw.log[m] # "unmute"

\* C34: once the worker has handled a mute command it sends no
\* free-discussion reply until it has handled an unmute command, also when
\* the poll loop was in its reply delay or its model call when the mute
\* command was handled.
C34_NoDiscussionReplyWhileMuted ==
    \A k \in DOMAIN bw.log : bw.log[k] = "free" => ~MutedAfter(k - 1)

\* the free-discussion replies of the discussion that the k-th entry of the
\* log opens: those sent before the next human message or command is handled
HandledDiscussion(k) ==
    {j \in (k + 1)..Len(bw.log) :
        /\ bw.log[j] = "free"
        /\ \A m \in (k + 1)..(j - 1) :
              bw.log[m] \notin {"human", "mute", "unmute"}}

\* the same, read from the chat: the free-discussion replies posted after
\* the k-th message and before the next human message
PostedDiscussion(k) ==
    {j \in (k + 1)..Len(bw.chat) :
        /\ bw.chat[j].cmd = "free"
        /\ \A m \in (k + 1)..(j - 1) : bw.chat[m].sender_type # "user"}

\* C40: in one discussion of a chat, from a human message that is no command
\* to the next human message or unmute command, the worker sends at most
\* max_discussion_rounds free-discussion replies, also when the poll loops
\* of two human messages overlap.  The discussion may be taken to change
\* when the human message is handled or when it is posted.
C40_DiscussionRepliesBounded ==
    \/ \A k \in DOMAIN bw.log :
          bw.log[k] = "human"
              => Cardinality(HandledDiscussion(k)) <= max_discussion_rounds
    \/ \A k \in DOMAIN bw.chat :
          bw.chat[k].sender_type = "user" /\ bw.chat[k].cmd = "text"
              => Cardinality(PostedDiscussion(k)) <= max_discussion_rounds

====
